---- MODULE Spec2Model ----
(***************************************************************************)
(* DhanVani-Data: RSS ingestion (main.py, database.py, parsers.py) and the *)
(* AI summarization pipeline (ai_summarizer.py, summarize_articles.py).    *)
(*                                                                         *)
(* Six state machines share this module, each with its own                 *)
(* specification:                                                          *)
(*   SumSpec    AISummarizer.summarize on one document                     *)
(*   DrvSpec    the batch driver of summarize_articles.py, over runs       *)
(*   StoreSpec  database.insert_data over successive batches               *)
(*   ParseSpec  the category parsers and _parse_datetime on one entry      *)
(*   MainSpec   the ingestion run of main.py, over runs                    *)
(*   WindowSpec is_within_summarization_window at times of the day         *)
(* A specification leaves the variables of the others unchanged.           *)
(*                                                                         *)
(* Text is a sequence of strings: characters, or whole tokens where only   *)
(* the identity of a value matters.  Python's None is the one-element      *)
(* sequence <<"None">>, which no text equals.                              *)
(***************************************************************************)
EXTENDS Integers, Sequences, FiniteSets, TLC

VARIABLES
    \* ---- AISummarizer.summarize (ai_summarizer.py) ----
    sPc,              \* position in summarize()
    url,              \* the URL's relevant features and the response's content type
    full_text,        \* summarize: full_text (None, "" or text)
    chunks,           \* summarize: chunks
    chunk_summaries,  \* summarize: chunk_summaries, built one chunk at a time
    apiCalls,         \* log of client.chat.completions.create calls: kind, system
                      \* message and text sent
    sumResult,        \* what summarize() returned
    \* ---- batch driver (summarize_articles.py) ----
    dPc,              \* position in main() / process_table()
    db,               \* committed rows: db[table][guid] = [url, summary]
    txn,              \* uncommitted UPDATEs of the connection's open transaction
    ti,               \* index into TABLES_TO_SUMMARIZE of the current table
    records_to_process, \* process_table: rows fetched by the SELECT
    ri,               \* index of the current row in records_to_process
    summary,          \* process_table: what summarizer.summarize returned for the row
    attempted,        \* history: the rows summarizer.summarize was invoked on, all runs
    lastStep,         \* history: the driver's last step and its row
    halted,           \* history: a window check before a row said "outside" in this run
    \* ---- store writer (database.py insert_data) ----
    iPc,              \* position in insert_data()
    table,            \* the rows of the feed's table, in insertion order
    entries,          \* insert_data: entries
    ei,               \* index of the current entry
    new_entries_count, \* insert_data: new_entries_count
    completed,        \* history: the last insert_data call returned (it did not raise)
    rerun,            \* history: this call has the entries of the call before, which returned
    lastInsert,       \* history: the last cursor.execute: its parameters, what it did
                      \* and the exception it raised
    \* ---- category parsers and _parse_datetime (parsers.py) ----
    pPc,              \* how far an entry has got: fetched, read, parsed
    pName,            \* the feed whose parser is applied
    pEntry,           \* the feed entry it was applied to
    pSym,             \* what get_symbol_from_name did, had it been called
    pResult,          \* what the parser did: None, a tuple, or an exception
    dStr,             \* _parse_datetime: date_str
    dFormats,         \* _parse_datetime: formats
    dResult,          \* _parse_datetime: the datetime returned, or None
    \* ---- ingestion run (main.py) ----
    mPc,              \* position in main()
    futures,          \* future_to_feed_config: each feed's fetch and what it returned
    tables,           \* the rows of each feed's table, in insertion order
    processing_stats, \* main: processing_stats
    feed_name,        \* main: feed_name of the feed being inserted
    mEntries,         \* insert_data: entries, in the call main is in
    mi,               \* index of the current entry of that call
    mCount,           \* insert_data: new_entries_count of that call
    mLast,            \* history: the last step of the main thread and its entry's guid
    \* ---- is_within_summarization_window (summarize_articles.py) ----
    windowCall        \* the last call: the UTC time of day it read and what it returned

sumVars == <<sPc, url, full_text, chunks, chunk_summaries, apiCalls, sumResult>>
drvVars == <<dPc, db, txn, ti, records_to_process, ri, summary, attempted,
             lastStep, halted>>
storeVars == <<iPc, table, entries, ei, new_entries_count, completed, rerun,
               lastInsert>>
parseVars == <<pPc, pName, pEntry, pSym, pResult, dStr, dFormats, dResult>>
mainVars == <<mPc, futures, tables, processing_stats, feed_name, mEntries, mi,
              mCount, mLast>>
vars == <<sumVars, drvVars, storeVars, parseVars, mainVars, windowCall>>

(***************************************************************************)
(* Python values                                                           *)
(***************************************************************************)
None == <<"None">>
EmptyStr == <<>>

\* A truth test that takes the empty string for true.
TruthyMutant_NotNone(s) == s # None

\* Python truthiness of an Optional[str]: None and "" are falsy.
Truthy(s) == s # None /\ s # EmptyStr

IsSpace(c) == c \in {" ", "\n"}

\* str.strip(): leading and trailing whitespace removed.
RECURSIVE LStrip(_)
LStrip(s) == IF s = <<>> THEN <<>>
             ELSE IF IsSpace(Head(s)) THEN LStrip(Tail(s)) ELSE s

RECURSIVE RStrip(_)
RStrip(s) == IF s = <<>> THEN <<>>
             ELSE IF IsSpace(s[Len(s)]) THEN RStrip(SubSeq(s, 1, Len(s) - 1)) ELSE s

Strip(s) == RStrip(LStrip(s))

\* A join that drops the separator: "".join(list).
RECURSIVE JoinMutant_NoSeparator(_, _)
JoinMutant_NoSeparator(sep, list) ==
    IF list = <<>> THEN <<>>
    ELSE list[1] \o JoinMutant_NoSeparator(sep, Tail(list))

\* sep.join(list)
RECURSIVE Join(_, _)
Join(sep, list) == IF list = <<>> THEN <<>>
                   ELSE IF Len(list) = 1 THEN list[1]
                   ELSE list[1] \o sep \o Join(sep, Tail(list))

\* sub in s, and s.find(sub) counted from 1 (0: not found); sub is not empty.
OccursAt(s, sub, i) ==
    i + Len(sub) - 1 <= Len(s) /\ SubSeq(s, i, i + Len(sub) - 1) = sub
Contains(s, sub) == \E i \in 1..Len(s) : OccursAt(s, sub, i)
Find(s, sub) ==
    IF Contains(s, sub)
    THEN CHOOSE i \in 1..Len(s) :
             OccursAt(s, sub, i) /\ \A j \in 1..(i - 1) : ~OccursAt(s, sub, j)
    ELSE 0

\* s.split(sep, maxsplit); maxsplit -1 splits at every occurrence.
RECURSIVE split(_, _, _)
split(s, sep, maxsplit) ==
    IF maxsplit = 0 \/ ~Contains(s, sep) THEN <<s>>
    ELSE LET i == Find(s, sep)
         IN  <<SubSeq(s, 1, i - 1)>>
             \o split(SubSeq(s, i + Len(sep), Len(s)), sep, maxsplit - 1)

\* s.replace(old, new)
replace(s, old, new) == Join(new, split(s, old, -1))

\* entry.get(key, default): a field a feed entry lacks is None in the model.
Get(entry, key, default) == IF entry[key] = None THEN default ELSE entry[key]

\* A dict built by assignments in order, as the sequence of its (key, value)
\* assignments; d.get(key) is the value of the last one for the key.
DictGet(d, key) ==
    IF \E i \in 1..Len(d) : d[i].key = key
    THEN d[CHOOSE i \in 1..Len(d) :
               d[i].key = key /\ \A j \in (i + 1)..Len(d) : d[j].key # key].value
    ELSE None

\* A filter that only drops None: [x for x in list if x is not None].
FilterMutant_NotNone(list) == SelectSeq(list, LAMBDA x : x # None)

\* [x for x in list if x]
RECURSIVE FilterTruthy(_)
FilterTruthy(list) == IF list = <<>> THEN <<>>
                      ELSE IF Truthy(Head(list))
                           THEN <<Head(list)>> \o FilterTruthy(Tail(list))
                           ELSE FilterTruthy(Tail(list))

(***************************************************************************)
(* AISummarizer (ai_summarizer.py)                                         *)
(***************************************************************************)
\* ai_summarizer.py:29 sets MAX_CHUNK_SIZE = 100000; the model scales it down.
MAX_CHUNK_SIZE == 2

\* Extracted documents have 0 .. MaxChunks * MAX_CHUNK_SIZE characters.
MaxChunks == 3

\* A document's text: its i-th character is the string of i, so that the
\* order and the coverage of the chunks can be told from their content.
DocText(n) == [i \in 1..n |-> ToString(i)]

ContentTypes == {"application/pdf", "application/xml", "text/xml", "text/html"}

\* _get_text_from_url's classification of the response.
IsPdf(u) == u.pdf_in_url \/ u.content_type = "application/pdf"
IsXml(u) == u.xml_in_url \/ u.content_type \in {"application/xml", "text/xml"}
FileType(u) == IF IsPdf(u) THEN "pdf" ELSE IF IsXml(u) THEN "xml" ELSE "unknown"

\* _split_text_into_chunks
NumSlices(n) == (n + MAX_CHUNK_SIZE - 1) \div MAX_CHUNK_SIZE
SplitMutant_DropsTail(text) ==
    IF Len(text) <= MAX_CHUNK_SIZE THEN <<text>>
    ELSE [k \in 1..(Len(text) \div MAX_CHUNK_SIZE) |->
            SubSeq(text, (k - 1) * MAX_CHUNK_SIZE + 1, k * MAX_CHUNK_SIZE)]
SplitMutant_WideSlices(text) ==
    IF Len(text) <= MAX_CHUNK_SIZE THEN <<text>>
    ELSE [k \in 1..((Len(text) + MAX_CHUNK_SIZE) \div (MAX_CHUNK_SIZE + 1)) |->
            SubSeq(text, (k - 1) * (MAX_CHUNK_SIZE + 1) + 1,
                   IF k * (MAX_CHUNK_SIZE + 1) < Len(text)
                   THEN k * (MAX_CHUNK_SIZE + 1) ELSE Len(text))]
_split_text_into_chunks(text) ==
    IF Len(text) <= MAX_CHUNK_SIZE THEN <<text>>
    ELSE [k \in 1..NumSlices(Len(text)) |->
            SubSeq(text, (k - 1) * MAX_CHUNK_SIZE + 1,
                   IF k * MAX_CHUNK_SIZE < Len(text) THEN k * MAX_CHUNK_SIZE
                                                     ELSE Len(text))]

\* What one chat.completions.create call can do: raise, or answer with a
\* message content that is None, whitespace only, or a padded text.  The text
\* answered to the k-th call of a document is tagged with k.
ApiOutcomes == {"raise", "none", "blank", "text"}
ApiContent(outcome, k) ==
    CASE outcome = "none"  -> None
      [] outcome = "blank" -> <<" ">>
      [] outcome = "text"  -> <<" ", "s", ToString(k), "\n">>
      [] OTHER             -> None

\* _summarize_text: its return value for `text` when the API does `outcome`.
_summarize_text(text, outcome, k) ==
    IF ~Truthy(text) THEN None
    ELSE IF outcome = "raise" THEN None
    ELSE LET content == ApiContent(outcome, k)
         IN  IF Truthy(content) THEN Strip(content) ELSE None

\* Whether _summarize_text reaches the API with `text` (line 128 returns first).
CallsApi(text) == Truthy(text)

\* The system message of the request (lines 137-146): _summarize_text has
\* one, the same for every caller.
SystemPrompt == <<"You are a highly experienced financial analyst. ...">>

LogCall(kind, text) ==
    IF CallsApi(text)
    THEN Append(apiCalls, [kind |-> kind, text |-> text, instruction |-> SystemPrompt])
    ELSE apiCalls

NoUrl == [pdf_in_url |-> FALSE, xml_in_url |-> FALSE, content_type |-> "",
          fetched |-> FALSE, extractor |-> "none"]


\* summarize, line 166: full_text = self._get_text_from_url(url).
\* A RequestException gives None (lines 94-96); an unknown file type gives
\* None (lines 109-112); otherwise the PDF or XML extractor gives the text it
\* found, "" when it found none or failed (lines 65-68, 78-81).  url keeps
\* what the URL and the response were and which extractor was called.
GetTextFromUrl ==
    /\ sPc = "start"
    /\ \E p \in BOOLEAN, x \in BOOLEAN, ct \in ContentTypes, ok \in BOOLEAN,
          n \in 0..(MaxChunks * MAX_CHUNK_SIZE) :
          LET u == [pdf_in_url |-> p, xml_in_url |-> x, content_type |-> ct,
                    fetched |-> ok]
          IN  /\ url' = [pdf_in_url |-> p, xml_in_url |-> x, content_type |-> ct,
                          fetched |-> ok,
                          extractor |-> IF ok THEN FileType(u) ELSE "none"]
              /\ full_text' = IF ~ok THEN None
                              ELSE IF FileType(u) = "unknown" THEN None
                              ELSE DocText(n)
              \* a failed fetch or an unknown type leaves one extraction result
              /\ (~ok \/ FileType(u) = "unknown") => n = 0
    /\ sPc' = "got_text"
    /\ UNCHANGED <<chunks, chunk_summaries, apiCalls, sumResult>>
    /\ UNCHANGED <<drvVars, storeVars, parseVars, mainVars, windowCall>>

\* summarize, lines 168-182: no text ends the call; otherwise the text is
\* split and the single-chunk or the map path is taken.
SplitText ==
    /\ sPc = "got_text"
    /\ IF ~Truthy(full_text)
       THEN /\ sumResult' = None
            /\ sPc' = "done"
            /\ UNCHANGED chunks
       ELSE /\ chunks' = _split_text_into_chunks(full_text)
            /\ sPc' = IF Len(chunks') = 1 THEN "direct" ELSE "map"
            /\ UNCHANGED sumResult
    /\ UNCHANGED <<url, full_text, chunk_summaries, apiCalls>>
    /\ UNCHANGED <<drvVars, storeVars, parseVars, mainVars, windowCall>>

\* summarize, lines 176-178: return self._summarize_text(chunks[0]).
SummarizeDirect ==
    /\ sPc = "direct"
    /\ \E o \in ApiOutcomes :
          sumResult' = _summarize_text(chunks[1], o, Len(apiCalls) + 1)
    /\ apiCalls' = LogCall("direct", chunks[1])
    /\ sPc' = "done"
    /\ UNCHANGED <<url, full_text, chunks, chunk_summaries>>
    /\ UNCHANGED <<drvVars, storeVars, parseVars, mainVars, windowCall>>

\* summarize, line 183: one iteration of the list comprehension over chunks.
SummarizeChunk ==
    /\ sPc = "map"
    /\ Len(chunk_summaries) < Len(chunks)
    /\ LET chunk == chunks[Len(chunk_summaries) + 1]
       IN  /\ \E o \in ApiOutcomes :
                 chunk_summaries' =
                     Append(chunk_summaries,
                            _summarize_text(chunk, o, Len(apiCalls) + 1))
           /\ apiCalls' = LogCall("map", chunk)
    /\ UNCHANGED <<sPc, url, full_text, chunks, sumResult>>
    /\ UNCHANGED <<drvVars, storeVars, parseVars, mainVars, windowCall>>

\* summarize, lines 185-192: keep the truthy chunk summaries; none left ends
\* the call with None, otherwise they are joined and summarized once more.
Reduce ==
    /\ sPc = "map"
    /\ Len(chunk_summaries) = Len(chunks)
    /\ LET valid_summaries == FilterTruthy(chunk_summaries)
           combined_summaries == Join(<<"\n", "\n">>, valid_summaries)
       IN  IF valid_summaries = <<>>
           THEN /\ sumResult' = None
                /\ UNCHANGED apiCalls
           ELSE /\ \E o \in ApiOutcomes :
                      sumResult' = _summarize_text(combined_summaries, o,
                                                   Len(apiCalls) + 1)
                /\ apiCalls' = LogCall("reduce", combined_summaries)
    /\ sPc' = "done"
    /\ UNCHANGED <<url, full_text, chunks, chunk_summaries>>
    /\ UNCHANGED <<drvVars, storeVars, parseVars, mainVars, windowCall>>

SumNext ==
    \/ GetTextFromUrl
    \/ SplitText
    \/ SummarizeDirect
    \/ SummarizeChunk
    \/ Reduce

(***************************************************************************)
(* Batch driver (summarize_articles.py)                                    *)
(***************************************************************************)
\* summarize_articles.py:15-35
AllTables == <<"nse_announcements", "nse_annual_reports", "nse_board_meetings",
               "nse_brsr", "nse_corporate_actions", "nse_insider_trading",
               "nse_investor_complaints", "nse_offer_documents",
               "nse_related_party_transactions", "nse_regulation31",
               "nse_regulation29", "nse_reason_for_encumbrance",
               "nse_secretarial_compliance", "nse_share_transfers",
               "nse_shareholding_pattern", "nse_statement_of_deviation",
               "nse_unit_holding_pattern", "nse_voting_results", "nse_circulars">>

\* The model runs the driver over the first two of the 19 tables.
TABLES_TO_SUMMARIZE == <<AllTables[1], AllTables[2]>>
NumTables == Len(TABLES_TO_SUMMARIZE)
TableNames == {TABLES_TO_SUMMARIZE[k] : k \in 1..NumTables}

\* Rows per table (their guids are 1..MaxRows).
MaxRows == 2
Guids == 1..MaxRows

\* summarize_articles.py:120
SUMMARY_FAILED == <<"[", "S", "U", "M", "M", "A", "R", "Y", "_",
                    "F", "A", "I", "L", "E", "D", "]">>

\* A summary text the summarizer returns.
SomeSummary == <<"s">>
DocUrl == <<"u">>

\* What summarizer.summarize(url) can do in process_table: raise, or return
\* None, "" (a whitespace-only answer, stripped) or a text.
SummarizeOutcomes == {"raise", "none", "empty", "text"}
SummarizeValue(o) ==
    CASE o = "none"  -> None
      [] o = "empty" -> EmptyStr
      [] OTHER       -> SomeSummary

\* The SELECT's WHERE clause, lines 74-79.
Unsummarized(row) ==
    /\ (row.summary = None \/ row.summary = EmptyStr)
    /\ row.url # None /\ row.url # EmptyStr

\* The rows a SELECT returns, in any order (the query has no ORDER BY).
Orderings(S) ==
    {f \in [1..Cardinality(S) -> S] : \A i, j \in 1..Cardinality(S) : f[i] = f[j] => i = j}
SelectUnsummarized(t) ==
    {[k \in 1..Len(f) |-> [pk_val |-> f[k], url |-> db[t][f[k]].url]] :
        f \in Orderings({g \in Guids : Unsummarized(db[t][g])})}

\* The value process_table writes for a returned summary, lines 105-123.
ValueToWrite(s) == IF Truthy(s) THEN s ELSE SUMMARY_FAILED

\* A commit that also clears the summary of every row the transaction did
\* not write.
CommittedMutant_ClearsOtherRows(d, writes) ==
    [t \in DOMAIN d |-> [g \in DOMAIN d[t] |->
        IF \E w \in writes : w.t = t /\ w.pk_val = g
        THEN [d[t][g] EXCEPT !.summary =
                 (CHOOSE w \in writes : w.t = t /\ w.pk_val = g).value]
        ELSE [d[t][g] EXCEPT !.summary = None]]]

\* conn.commit(): the transaction's UPDATEs become the rows' summaries.
Committed(d, writes) ==
    [t \in DOMAIN d |-> [g \in DOMAIN d[t] |->
        IF \E w \in writes : w.t = t /\ w.pk_val = g
        THEN [d[t][g] EXCEPT !.summary =
                 (CHOOSE w \in writes : w.t = t /\ w.pk_val = g).value]
        ELSE d[t][g]]]

NoRow == [t |-> "", pk_val |-> 0]
CurTable == TABLES_TO_SUMMARIZE[ti]
CurRow == [t |-> CurTable, pk_val |-> records_to_process[ri].pk_val]
Step(kind, row) == [kind |-> kind, row |-> row]

\* A run of main() is over: conn.close() in the finally clause, lines 160-164.
EndRun ==
    /\ dPc' = "idle"
    /\ ti' = 0
    /\ ri' = 0
    /\ records_to_process' = <<>>
    /\ summary' = None

\* The end of one iteration of the loop over records_to_process; after the last
\* row process_table returns True (line 130) and main goes to the next table.
NextRow ==
    /\ summary' = None
    /\ IF ri < Len(records_to_process)
       THEN /\ ri' = ri + 1
            /\ dPc' = "row"
            /\ UNCHANGED <<ti, records_to_process>>
       ELSE IF ti < NumTables
       THEN /\ ti' = ti + 1
            /\ dPc' = "table"
            /\ ri' = 0
            /\ records_to_process' = <<>>
       ELSE /\ dPc' = "idle"
            /\ ti' = 0
            /\ ri' = 0
            /\ records_to_process' = <<>>

\* process_table, lines 93-96, and main, lines 152-154: outside the window
\* process_table returns False and main breaks out of the loop over tables.
WindowClosedMutant_NextTable ==
    /\ halted' = TRUE
    /\ summary' = None
    /\ IF ti < NumTables
       THEN /\ ti' = ti + 1
            /\ dPc' = "table"
            /\ ri' = 0
            /\ records_to_process' = <<>>
       ELSE /\ dPc' = "idle"
            /\ ti' = 0
            /\ ri' = 0
            /\ records_to_process' = <<>>
WindowClosedMutant_Summarizes ==
    /\ halted' = TRUE
    /\ dPc' = "summarize"
    /\ UNCHANGED <<ti, ri, records_to_process, summary>>
WindowClosed ==
    /\ halted' = TRUE
    /\ EndRun


\* main, lines 137-149: the initial window check, then the summarizer and the
\* connection are set up (either may raise: lines 156-159).
MainStart ==
    /\ dPc = "idle"
    /\ halted' = FALSE
    /\ \E inside \in BOOLEAN, setup_ok \in BOOLEAN :
          IF ~inside
          THEN /\ lastStep' = Step("start_outside", NoRow)
               /\ EndRun
          ELSE IF ~setup_ok
          THEN /\ lastStep' = Step("setup_failed", NoRow)
               /\ EndRun
          ELSE /\ lastStep' = Step("start_inside", NoRow)
               /\ dPc' = "table"
               /\ ti' = 1
               /\ ri' = 0
               /\ records_to_process' = <<>>
               /\ summary' = None
    /\ txn' = {}
    /\ UNCHANGED <<db, attempted>>
    /\ UNCHANGED <<sumVars, storeVars, parseVars, mainVars, windowCall>>

\* process_table, lines 73-88 and 132-135, with main's test of its result
\* (lines 152-154).  A failed SELECT is rolled back and returns False; a SELECT
\* that finds nothing returns None (line 86); main breaks on either.
QueryTable ==
    /\ dPc = "table"
    /\ \E select_ok \in BOOLEAN :
          IF ~select_ok
          THEN /\ lastStep' = Step("db_error", [t |-> CurTable, pk_val |-> 0])
               /\ txn' = {}
               /\ EndRun
          ELSE \E recs \in SelectUnsummarized(CurTable) :
                 IF recs = <<>>
                 THEN /\ lastStep' = Step("no_records", [t |-> CurTable, pk_val |-> 0])
                      /\ EndRun
                      /\ UNCHANGED txn
                 ELSE /\ lastStep' = Step("selected", [t |-> CurTable, pk_val |-> 0])
                      /\ records_to_process' = recs
                      /\ ri' = 1
                      /\ dPc' = "row"
                      /\ UNCHANGED <<ti, summary, txn>>
    /\ UNCHANGED <<db, attempted, halted>>
    /\ UNCHANGED <<sumVars, storeVars, parseVars, mainVars, windowCall>>

\* process_table, lines 90-99: the window check before a row.  Outside the
\* window process_table returns False and main breaks.
CheckWindow ==
    /\ dPc = "row"
    /\ \E inside \in BOOLEAN :
          IF ~inside
          THEN /\ lastStep' = Step("window_outside", CurRow)
               /\ WindowClosed
          ELSE /\ lastStep' = Step("window_inside", CurRow)
               /\ halted' = halted
               /\ IF ~Truthy(records_to_process[ri].url)
                  THEN NextRow
                  ELSE /\ dPc' = "summarize"
                       /\ UNCHANGED <<ti, ri, records_to_process, summary>>
    /\ UNCHANGED <<db, txn, attempted>>
    /\ UNCHANGED <<sumVars, storeVars, parseVars, mainVars, windowCall>>

\* process_table, lines 102-104 and 125-126: summarizer.summarize(url).  An
\* exception is logged and the loop goes on to the next row.
Summarize ==
    /\ dPc = "summarize"
    /\ attempted' = attempted \cup {CurRow}
    /\ \E o \in SummarizeOutcomes :
          IF o = "raise"
          THEN /\ lastStep' = Step("summarize_raised", CurRow)
               /\ NextRow
          ELSE /\ lastStep' = Step("summarize", CurRow)
               /\ summary' = SummarizeValue(o)
               /\ dPc' = "execute"
               /\ UNCHANGED <<ti, ri, records_to_process>>
    /\ UNCHANGED <<db, txn, halted>>
    /\ UNCHANGED <<sumVars, storeVars, parseVars, mainVars, windowCall>>

\* process_table, lines 105-111 and 115-123: cur.execute of the UPDATE.  An
\* exception is caught by line 125.
ExecuteUpdate ==
    /\ dPc = "execute"
    /\ \E execute_ok \in BOOLEAN :
          IF ~execute_ok
          THEN /\ lastStep' = Step("execute_raised", CurRow)
               /\ UNCHANGED txn
               /\ NextRow
          ELSE /\ lastStep' = Step("execute", CurRow)
               /\ txn' = txn \cup {[t |-> CurTable, pk_val |-> CurRow.pk_val,
                                    value |-> ValueToWrite(summary)]}
               /\ dPc' = "commit"
               /\ UNCHANGED <<ti, ri, records_to_process, summary>>
    /\ UNCHANGED <<db, attempted, halted>>
    /\ UNCHANGED <<sumVars, storeVars, parseVars, mainVars, windowCall>>

\* process_table, lines 112 and 124: conn.commit().  A commit that raises
\* loses the transaction and is caught by line 125.
Commit ==
    /\ dPc = "commit"
    /\ \E commit_ok \in BOOLEAN :
          IF commit_ok
          THEN /\ lastStep' = Step("commit", CurRow)
               /\ db' = Committed(db, txn)
          ELSE /\ lastStep' = Step("commit_raised", CurRow)
               /\ UNCHANGED db
    /\ txn' = {}
    /\ NextRow
    /\ UNCHANGED <<attempted, halted>>
    /\ UNCHANGED <<sumVars, storeVars, parseVars, mainVars, windowCall>>

DrvNext ==
    \/ MainStart
    \/ QueryTable
    \/ CheckWindow
    \/ Summarize
    \/ ExecuteUpdate
    \/ Commit

(***************************************************************************)
(* Store writer (database.py insert_data, on the Announcements feed)       *)
(***************************************************************************)
\* Entries per batch.
MaxEntries == 2

(***************************************************************************)
(* Dates (parsers.py, datetime)                                            *)
(*                                                                         *)
(* A date string is a sequence of tokens, a token being a run of digits or *)
(* letters, a punctuation character or a space; a format is the sequence   *)
(* of its directives and literal characters.  A datetime is the tuple      *)
(* <<year, month, day, hour, minute, second, utcoffset>>.                  *)
(***************************************************************************)
NumVal == ("00" :> 0 @@ "01" :> 1 @@ "03" :> 3 @@ "06" :> 6 @@ "10" :> 10 @@ "15" :> 15 @@
           "24" :> 24 @@ "26" :> 26 @@ "30" :> 30 @@ "31" :> 31)
YearVal == ("2024" :> 2024 @@ "2025" :> 2025)
MonthAbbr == ("Jan" :> 1 @@ "Mar" :> 3 @@ "Jun" :> 6)
DayNames == {"Mon", "Thu"}
UtcOffsets == ("+0530" :> "+05:30")

DaysIn(month) == IF month \in {4, 6, 9, 11} THEN 30 ELSE 31

NoField == [ok |-> FALSE, f |-> "none", v |-> 0]
Field(f, v) == [ok |-> TRUE, f |-> f, v |-> v]
NumField(f, tok, lo, hi) ==
    IF tok \in DOMAIN NumVal /\ NumVal[tok] >= lo /\ NumVal[tok] <= hi
    THEN Field(f, NumVal[tok]) ELSE NoField

\* What one directive, or one literal character, of a format makes of a token.
MatchDirective(d, tok) ==
    CASE d = "%d" -> NumField("day", tok, 1, 31)
      [] d = "%m" -> NumField("month", tok, 1, 12)
      [] d = "%H" -> NumField("hour", tok, 0, 23)
      [] d = "%M" -> NumField("minute", tok, 0, 59)
      [] d = "%S" -> NumField("second", tok, 0, 61)
      [] d = "%y" -> IF tok \in DOMAIN NumVal
                     THEN Field("year", IF NumVal[tok] <= 68 THEN 2000 + NumVal[tok]
                                                             ELSE 1900 + NumVal[tok])
                     ELSE NoField
      [] d = "%Y" -> IF tok \in DOMAIN YearVal THEN Field("year", YearVal[tok])
                     ELSE NoField
      [] d = "%b" -> IF tok \in DOMAIN MonthAbbr THEN Field("month", MonthAbbr[tok])
                     ELSE NoField
      [] d = "%a" -> IF tok \in DayNames THEN Field("weekday", 0) ELSE NoField
      [] d = "%z" -> IF tok \in DOMAIN UtcOffsets THEN Field("tz", UtcOffsets[tok])
                     ELSE NoField
      [] OTHER    -> IF tok = d THEN Field("literal", 0) ELSE NoField

\* datetime.strptime(s, fmt): [ok |-> TRUE, dt |-> the datetime], or ok FALSE
\* for the ValueError of a string the format does not match (a token the
\* directive rejects, data left over, a day the month does not have).
\* m is what the format's directives make of the string's tokens.
NoDatetime == <<0, 0, 0, 0, 0, 0, "">>
FieldValue(m, f, default) ==
    IF \E i \in 1..Len(m) : m[i].f = f
    THEN m[CHOOSE i \in 1..Len(m) : m[i].f = f].v
    ELSE default
DatetimeOf(m) ==
    <<FieldValue(m, "year", 1900), FieldValue(m, "month", 1), FieldValue(m, "day", 1),
      FieldValue(m, "hour", 0), FieldValue(m, "minute", 0), FieldValue(m, "second", 0),
      FieldValue(m, "tz", "")>>
ValidDatetime(dt) ==
    IF dt[3] > DaysIn(dt[2]) THEN [ok |-> FALSE, dt |-> NoDatetime]
    ELSE [ok |-> TRUE, dt |-> dt]
MatchedDatetime(m) ==
    IF \E i \in 1..Len(m) : ~m[i].ok THEN [ok |-> FALSE, dt |-> NoDatetime]
    ELSE ValidDatetime(DatetimeOf(m))
strptime(s, fmt) ==
    IF Len(s) # Len(fmt) THEN [ok |-> FALSE, dt |-> NoDatetime]
    ELSE MatchedDatetime([i \in 1..Len(s) |-> MatchDirective(fmt[i], s[i])])

Pad2(n) == CHOOSE tok \in DOMAIN NumVal : NumVal[tok] = n

\* date.isoformat() and datetime.isoformat()
DateIso(dt) == <<ToString(dt[1]), "-", Pad2(dt[2]), "-", Pad2(dt[3])>>
isoformat(dt) ==
    DateIso(dt) \o <<"T", Pad2(dt[4]), ":", Pad2(dt[5]), ":", Pad2(dt[6])>>
    \o (IF dt[7] = "" THEN <<>> ELSE <<dt[7]>>)

\* A _parse_datetime that only tries the first format of the list.
FirstFormatOnly(r) == IF r.ok THEN r.dt ELSE None
ParseDatetimeMutant_FirstFormatOnly(date_str, formats) ==
    IF ~Truthy(date_str) \/ formats = <<>> THEN None
    ELSE FirstFormatOnly(strptime(date_str, formats[1]))

\* parsers.py:36-45.  TryFormat is one iteration of the loop over formats: r is
\* what strptime made of date_str under the current format.
RECURSIVE _parse_datetime(_, _)
RECURSIVE TryFormat(_, _, _)
TryFormat(r, date_str, rest) ==
    IF r.ok THEN r.dt ELSE _parse_datetime(date_str, rest)
_parse_datetime(date_str, formats) ==
    IF ~Truthy(date_str) THEN None
    ELSE IF formats = <<>> THEN None
    ELSE TryFormat(strptime(date_str, Head(formats)), date_str, Tail(formats))

\* The formats of the parsers' calls.
FmtDateTimeSec == <<"%d", "-", "%b", "-", "%Y", " ", "%H", ":", "%M", ":", "%S">>
FmtDateTimeMin == <<"%d", "-", "%b", "-", "%Y", " ", "%H", ":", "%M">>
FmtDate == <<"%d", "-", "%b", "-", "%Y">>
FmtDateShortYear == <<"%d", "-", "%b", "-", "%y">>
FmtRfc822 == <<"%a", ",", " ", "%d", " ", "%b", " ", "%Y", " ",
               "%H", ":", "%M", ":", "%S", " ", "%z">>

GoodDate == <<"15", "-", "Jan", "-", "2024", " ", "10", ":", "00", ":", "00">>
BadDate == <<"yesterday">>
IsoDate == <<"2024", "-", "01", "-", "15", "T", "10", ":", "00", ":", "00">>
StructTime == <<"struct_time(2024, 1, 15, 10, 0, 0)">>

\* parsers.py:60: datetime.fromtimestamp(time.mktime(st)).
FromStructTime(st) == IF st = StructTime THEN <<2024, 1, 15, 10, 0, 0, "">> ELSE None

\* Feed entries: with and without a title, a link and a parsable date, and
\* two entries that share their link and differ in every other field.
FeedEntries ==
    { [title |-> <<"A">>, link |-> <<"L">>, description |-> <<"d1">>,
       published_parsed |-> StructTime, published |-> GoodDate],
      [title |-> <<"B">>, link |-> <<"L">>, description |-> <<"d2">>,
       published_parsed |-> None, published |-> GoodDate],
      [title |-> <<"A">>, link |-> None, description |-> <<"d1">>,
       published_parsed |-> StructTime, published |-> None],
      [title |-> None, link |-> <<"L">>, description |-> <<"d1">>,
       published_parsed |-> StructTime, published |-> GoodDate],
      [title |-> <<"A">>, link |-> <<"M">>, description |-> None,
       published_parsed |-> None, published |-> BadDate] }

Batches == UNION {[1..n -> FeedEntries] : n \in 0..MaxEntries}

\* get_symbol_from_name (parsers.py:11-34): a symbol, None, or an exception
\* of the HTTP request, which nothing in the parser catches.
SymbolOutcomes == {"raise", "none", "symbol"}
SymbolValue(o) == IF o = "symbol" THEN <<"SYM">> ELSE None

\* parse_announcement_entry (parsers.py:48-82): the tuple, None, or the
\* exception of the symbol lookup.
parse_announcement_entry(entry, sym) ==
    IF ~Truthy(entry.title) THEN [kind |-> "none", data |-> <<>>]
    ELSE LET published_dt ==
                 IF Truthy(entry.published_parsed)
                 THEN FromStructTime(entry.published_parsed)
                 ELSE IF Truthy(entry.published)
                 THEN _parse_datetime(entry.published, <<FmtDateTimeSec>>)
                 ELSE None
         IN  IF ~Truthy(published_dt) THEN [kind |-> "none", data |-> <<>>]
             ELSE IF sym = "raise" THEN [kind |-> "raise", data |-> <<>>]
             ELSE LET published_iso == isoformat(published_dt)
                      guid == IF Truthy(entry.link) THEN entry.link
                              ELSE entry.title \o <<"-">> \o published_iso
                  IN  [kind |-> "tuple",
                       data |-> <<guid, entry.title, entry.link, entry.description,
                                  published_iso, SymbolValue(sym), EmptyStr>>]

\* What a parser does with an entry: None, a tuple, or the exception of the
\* symbol lookup.
Rejected == [kind |-> "none", data |-> <<>>]
Raised == [kind |-> "raise", data |-> <<>>]
Accepted(data) == [kind |-> "tuple", data |-> data]

\* The decimal numbers of the feeds' descriptions and their values.
IntVal == ("1" :> 1 @@ "2" :> 2 @@ "5" :> 5) @@ NumVal @@ YearVal

\* str.isdigit()
isdigit(s) == s # <<>> /\ \A i \in 1..Len(s) : s[i] \in DOMAIN IntVal

\* float(s) for a decimal numeral: <<"float", whole part, fraction digits>>.
float(s) ==
    IF Len(s) = 1 THEN <<"float", IntVal[s[1]], "0">>
    ELSE IF Len(s) = 2 /\ s[2] = "." THEN <<"float", IntVal[s[1]], "0">>
    ELSE IF Len(s) = 2 /\ s[1] = "." THEN <<"float", 0, s[2]>>
    ELSE <<"float", IntVal[s[1]], s[3]>>

\* Whether float(s) returns: s is a decimal numeral (else ValueError).
IsNumeral(s) ==
    \/ Len(s) = 1 /\ s[1] \in DOMAIN IntVal
    \/ Len(s) = 2 /\ s[1] \in DOMAIN IntVal /\ s[2] = "."
    \/ Len(s) = 2 /\ s[1] = "." /\ s[2] \in DOMAIN IntVal
    \/ Len(s) = 3 /\ s[1] \in DOMAIN IntVal /\ s[2] = "." /\ s[3] \in DOMAIN IntVal

\* s.replace('.', '', 1): the first "." removed.
RemoveFirstDot(s) == Join(<<>>, split(s, <<".">>, 1))

\* hashlib.sha256(s.encode()).hexdigest(): a digest that tells apart any two
\* strings.
sha256(s) == <<"sha256(">> \o s \o <<")">>

\* key.upper().replace(' ', '_')
UpperToken == ("As" :> "AS" @@ "On" :> "ON" @@ "Date" :> "DATE")
upper(s) == [i \in 1..Len(s) |->
                IF s[i] \in DOMAIN UpperToken THEN UpperToken[s[i]] ELSE s[i]]
UpperUnderscore(k) == replace(upper(k), <<" ">>, <<"_">>)

\* The description fields "KEY : value|KEY : value" as a dict (parsers.py:
\* 174-181 and 519-526, the latter with its keys in upper case and
\* underscores).  A value that is empty or "-" is left out.
DescEntry(key, value, upper_keys) ==
    IF Truthy(value) /\ value # <<"-">>
    THEN <<[key |-> IF upper_keys THEN UpperUnderscore(key) ELSE key,
            value |-> value]>>
    ELSE <<>>
DescItem(parts, upper_keys) ==
    IF Len(parts) = 2 THEN DescEntry(Strip(parts[1]), Strip(parts[2]), upper_keys)
    ELSE <<>>
RECURSIVE DescPairs(_, _)
DescPairs(items, upper_keys) ==
    IF items = <<>> THEN <<>>
    ELSE DescItem(split(Head(items), <<":">>, 1), upper_keys)
         \o DescPairs(Tail(items), upper_keys)

\* parse_annual_report_entry (parsers.py:85-103); the second operator is the
\* function from line 98 on, report_dt known.
AnnualReportTuple(entry, sym, report_dt) ==
    IF ~Truthy(report_dt) THEN Rejected
    ELSE IF sym = "raise" THEN Raised
    ELSE Accepted(<<entry.link, entry.title, entry.link, DateIso(report_dt),
                    SymbolValue(sym), EmptyStr>>)
parse_annual_report_entry(entry, sym) ==
    IF ~Truthy(entry.link) \/ ~Truthy(entry.title) THEN Rejected
    ELSE AnnualReportTuple(entry, sym,
             _parse_datetime(
                 Strip(replace(Get(entry, "description", EmptyStr),
                               <<"AS", " ", "ON", " ", "DATE", " ", ":">>, <<>>)),
                 <<FmtDateShortYear>>))

\* A board-meeting parser that lets an entry without a meeting date through.
BoardMeetingMutantTuple(entry, sym, published_dt) ==
    IF ~Truthy(published_dt) THEN Rejected
    ELSE IF sym = "raise" THEN Raised
    ELSE Accepted(<<entry.link, entry.title, entry.link, None,
                    isoformat(published_dt), SymbolValue(sym), EmptyStr>>)
ParseBoardMeetingMutant_NoMeetingDateCheck(entry, sym) ==
    IF ~Truthy(entry.link) \/ ~Truthy(entry.title) THEN Rejected
    ELSE BoardMeetingMutantTuple(entry, sym,
             _parse_datetime(entry.published, <<FmtDateTimeSec>>))

\* parse_board_meeting_entry (parsers.py:106-134): lines 122-125, then the
\* function from line 118 on with both dates known, then the whole.
MeetingDateLabel == <<"Meeting", " ", "Date", ":">>
MeetingDateStr(description_parts) ==
    IF Len(description_parts) > 1 /\ Contains(description_parts[2], MeetingDateLabel)
    THEN Strip(replace(description_parts[2], MeetingDateLabel, <<>>))
    ELSE EmptyStr
BoardMeetingTuple(entry, sym, published_dt, meeting_dt) ==
    IF ~Truthy(published_dt) THEN Rejected
    ELSE IF ~Truthy(meeting_dt) THEN Rejected
    ELSE IF sym = "raise" THEN Raised
    ELSE Accepted(<<entry.link, entry.title, entry.link, DateIso(meeting_dt),
                    isoformat(published_dt), SymbolValue(sym), EmptyStr>>)
parse_board_meeting_entry(entry, sym) ==
    IF ~Truthy(entry.link) \/ ~Truthy(entry.title) THEN Rejected
    ELSE BoardMeetingTuple(entry, sym,
             _parse_datetime(entry.published, <<FmtDateTimeSec>>),
             _parse_datetime(
                 MeetingDateStr(split(Get(entry, "description", EmptyStr), <<"|">>, -1)),
                 <<FmtDate>>))

\* parse_corporate_action_entry (parsers.py:162-217): lines 202-205, line 209,
\* then the function from line 193 on with its dates known, from line 183 on
\* with desc_dict known, and the whole.
ExDateMarker == <<"Ex", "-", "Date", ":">>
ExDateStr(title) ==
    IF Contains(title, ExDateMarker) THEN Strip(split(title, ExDateMarker, -1)[2])
    ELSE EmptyStr
\* A face value left as the description's string.
FaceValueMutant_NoConversion(face_value_str) == face_value_str
FaceValue(face_value_str) ==
    IF Truthy(face_value_str) /\ isdigit(RemoveFirstDot(face_value_str))
    THEN float(face_value_str) ELSE None
OptionalDateIso(dt) == IF Truthy(dt) THEN DateIso(dt) ELSE None
CorporateActionTuple(entry, sym, desc_dict, guid, published_dt, record_dt, ex_dt) ==
    IF ~Truthy(published_dt) THEN Rejected
    ELSE IF ~Truthy(record_dt) THEN Rejected
    ELSE IF sym = "raise" THEN Raised
    ELSE Accepted(<<guid, entry.title, entry.link, entry.description,
                    isoformat(published_dt), OptionalDateIso(ex_dt),
                    DictGet(desc_dict, <<"SERIES">>),
                    DictGet(desc_dict, <<"PURPOSE">>),
                    FaceValue(DictGet(desc_dict, <<"FACE", " ", "VALUE">>)),
                    DateIso(record_dt), SymbolValue(sym), EmptyStr>>)
\* A corporate-action parser that takes the link for the guid when there is one.
CorporateActionMutant_PrefersLink(entry, sym, desc_dict, record_date_str) ==
    IF ~Truthy(record_date_str) THEN Rejected
    ELSE CorporateActionTuple(entry, sym, desc_dict,
             IF Truthy(entry.link) THEN entry.link
             ELSE entry.title \o <<"-">> \o record_date_str,
             _parse_datetime(entry.published, <<FmtDateTimeSec>>),
             _parse_datetime(record_date_str, <<FmtDate>>),
             _parse_datetime(ExDateStr(entry.title), <<FmtDate>>))
CorporateActionDated(entry, sym, desc_dict, record_date_str) ==
    IF ~Truthy(record_date_str) THEN Rejected
    ELSE CorporateActionTuple(entry, sym, desc_dict,
             entry.title \o <<"-">> \o record_date_str,
             _parse_datetime(entry.published, <<FmtDateTimeSec>>),
             _parse_datetime(record_date_str, <<FmtDate>>),
             _parse_datetime(ExDateStr(entry.title), <<FmtDate>>))
CorporateActionFields(entry, sym, desc_dict) ==
    CorporateActionDated(entry, sym, desc_dict,
                         DictGet(desc_dict, <<"RECORD", " ", "DATE">>))
parse_corporate_action_entry(entry, sym) ==
    IF ~Truthy(entry.title) \/ ~Truthy(entry.description) THEN Rejected
    ELSE CorporateActionFields(entry, sym,
             DescPairs(split(entry.description, <<"|">>, -1), FALSE))

\* The date a description carries after a label and its colon: lines 271-273
\* of parse_investor_complaint_entry, 492-494 of parse_share_transfer_entry.
LabelledDate(description, label, formats) ==
    IF Contains(description, label)
    THEN _parse_datetime(Strip(split(description, <<":">>, 1)[2]), formats)
    ELSE None

\* parse_investor_complaint_entry (parsers.py:253-280)
InvestorComplaintTuple(entry, sym, published_dt, quarter_ending_dt) ==
    IF ~Truthy(published_dt) THEN Rejected
    ELSE IF ~Truthy(quarter_ending_dt) THEN Rejected
    ELSE IF sym = "raise" THEN Raised
    ELSE Accepted(<<entry.link, entry.title, entry.link, DateIso(quarter_ending_dt),
                    isoformat(published_dt), SymbolValue(sym), EmptyStr>>)
parse_investor_complaint_entry(entry, sym) ==
    IF ~Truthy(entry.link) \/ ~Truthy(entry.title) THEN Rejected
    ELSE InvestorComplaintTuple(entry, sym,
             _parse_datetime(entry.published, <<FmtDateTimeSec>>),
             LabelledDate(Get(entry, "description", EmptyStr),
                          <<"FOR", " ", "QUARTER", " ", "ENDING", " ", ":">>,
                          <<FmtDateShortYear>>))

\* parsers.py:421
EncumbranceLabel ==
    <<"NAME", " ", "OF", " ", "THE", " ", "PROMOTER", "(", "S", ")", " ", "/", " ",
      "PACS", " ", "WHOSE", " ", "SHARES", " ", "HAVE", " ", "BEEN", " ",
      "ENCUMBERED", " ", ":">>

\* parse_reason_for_encumbrance_entry (parsers.py:394-425)
OptionalIso(dt) == IF Truthy(dt) THEN isoformat(dt) ELSE None
EncumbrancePublished(entry) ==
    IF Truthy(entry.published_parsed) THEN FromStructTime(entry.published_parsed)
    ELSE IF Truthy(entry.published)
    THEN _parse_datetime(entry.published, <<FmtDateTimeSec, FmtDateTimeMin>>)
    ELSE None
PromoterName(description) ==
    IF Contains(description, EncumbranceLabel)
    THEN Strip(split(description, <<":">>, 1)[2])
    ELSE None
parse_reason_for_encumbrance_entry(entry, sym) ==
    IF ~Truthy(entry.title) \/ ~Truthy(entry.description) THEN Rejected
    ELSE IF sym = "raise" THEN Raised
    ELSE Accepted(<<sha256(entry.title \o entry.description), entry.title,
                    entry.link, PromoterName(entry.description),
                    OptionalIso(EncumbrancePublished(entry)),
                    SymbolValue(sym), EmptyStr>>)

\* parse_share_transfer_entry (parsers.py:467-503)
ShareTransferTuple(entry, sym, published_dt, period_end_dt) ==
    IF ~Truthy(published_dt) THEN Rejected
    ELSE IF ~Truthy(period_end_dt) THEN Rejected
    ELSE IF sym = "raise" THEN Raised
    ELSE Accepted(<<sha256(entry.title \o entry.description), entry.title,
                    entry.link, DateIso(period_end_dt), isoformat(published_dt),
                    SymbolValue(sym), EmptyStr>>)
parse_share_transfer_entry(entry, sym) ==
    IF ~Truthy(entry.title) \/ ~Truthy(entry.description) THEN Rejected
    ELSE ShareTransferTuple(entry, sym,
             _parse_datetime(entry.published, <<FmtDateTimeMin>>),
             LabelledDate(entry.description,
                          <<"PERIOD", " ", "ENDED", " ", ":">>, <<FmtDate>>))

\* parse_shareholding_pattern_entry.to_float (parsers.py:547-550)
to_float(val) == IF val = None THEN None
                 ELSE IF IsNumeral(val) THEN float(val) ELSE None

\* parse_shareholding_pattern_entry (parsers.py:506-559): the function from
\* line 530 on with its dates known, from line 529 on with desc_dict known,
\* and the whole.
ShareholdingTuple(entry, sym, desc_dict, published_dt, as_on_dt, submission_dt, revision_dt) ==
    IF ~Truthy(published_dt) THEN Rejected
    ELSE IF ~Truthy(as_on_dt) THEN Rejected
    ELSE IF ~Truthy(submission_dt) THEN Rejected
    ELSE IF sym = "raise" THEN Raised
    ELSE Accepted(<<entry.link, entry.title, entry.link, DateIso(as_on_dt),
             to_float(DictGet(desc_dict, <<"PR", "_", "AND", "_", "PRGRP">>)),
             to_float(DictGet(desc_dict, <<"PUBLIC", "_", "VAL">>)),
             to_float(DictGet(desc_dict, <<"EMPTR">>)),
             DictGet(desc_dict, <<"NDS", "_", "REVISED", "_", "STATUS">>),
             DateIso(submission_dt), OptionalDateIso(revision_dt),
             isoformat(published_dt), SymbolValue(sym), EmptyStr>>)
ShareholdingFields(entry, sym, desc_dict) ==
    ShareholdingTuple(entry, sym, desc_dict,
        _parse_datetime(entry.published, <<FmtDateTimeSec>>),
        _parse_datetime(DictGet(desc_dict, <<"AS", "_", "ON", "_", "DATE">>), <<FmtDate>>),
        _parse_datetime(DictGet(desc_dict, <<"SUBMISSION", "_", "DT">>), <<FmtDate>>),
        _parse_datetime(DictGet(desc_dict, <<"REVISION", "_", "DT">>), <<FmtDate>>))
parse_shareholding_pattern_entry(entry, sym) ==
    IF ~Truthy(entry.link) \/ ~Truthy(entry.title) \/ ~Truthy(entry.description)
    THEN Rejected
    ELSE ShareholdingFields(entry, sym,
             DescPairs(split(entry.description, <<"|">>, -1), TRUE))

\* parse_circular_entry (parsers.py:652-672)
CircularTuple(entry, sym, published_dt) ==
    IF ~Truthy(published_dt) THEN Rejected
    ELSE IF sym = "raise" THEN Raised
    ELSE Accepted(<<entry.link, entry.title, entry.link, isoformat(published_dt),
                    SymbolValue(sym), EmptyStr>>)
parse_circular_entry(entry, sym) ==
    IF ~Truthy(entry.link) \/ ~Truthy(entry.title) THEN Rejected
    ELSE CircularTuple(entry, sym,
             _parse_datetime(entry.published, <<FmtRfc822, FmtDateTimeSec>>))

\* The field a description carries after a label (parsers.py:236-239, and
\* lines 356-359, 384-386 of the regulation parsers): the label is looked for
\* anywhere, the description is split at its first colon.
LabelledValue(description, label) ==
    IF Contains(description, label)
    THEN Strip(split(description, <<":">>, 1)[2])
    ELSE None

\* parse_insider_trading_entry (parsers.py:220-250)
SecurityTypeLabel == <<"TYPE", " ", "OF", " ", "SECURITY", " ", ":">>
InsiderTradingTuple(entry, sym, published_dt) ==
    IF ~Truthy(published_dt) THEN Rejected
    ELSE IF sym = "raise" THEN Raised
    ELSE Accepted(<<entry.link, entry.title, entry.link,
                    LabelledValue(Get(entry, "description", EmptyStr),
                                  SecurityTypeLabel),
                    isoformat(published_dt), SymbolValue(sym), EmptyStr>>)
parse_insider_trading_entry(entry, sym) ==
    IF ~Truthy(entry.link) \/ ~Truthy(entry.title) THEN Rejected
    ELSE InsiderTradingTuple(entry, sym,
             _parse_datetime(entry.published, <<FmtDateTimeMin>>))

\* The category parsers of the model, by the name of their feed (config.py).
ParserNames == {"Announcements", "Annual Reports", "Board Meetings",
                "Corporate Actions", "Investor Complaints",
                "Reason for Encumbrance", "Share Transfers",
                "Shareholding Pattern", "Circulars", "Insider Trading"}
ApplyParser(name, entry, sym) ==
    CASE name = "Announcements"          -> parse_announcement_entry(entry, sym)
      [] name = "Annual Reports"         -> parse_annual_report_entry(entry, sym)
      [] name = "Board Meetings"         -> parse_board_meeting_entry(entry, sym)
      [] name = "Corporate Actions"      -> parse_corporate_action_entry(entry, sym)
      [] name = "Investor Complaints"    -> parse_investor_complaint_entry(entry, sym)
      [] name = "Reason for Encumbrance" -> parse_reason_for_encumbrance_entry(entry, sym)
      [] name = "Share Transfers"        -> parse_share_transfer_entry(entry, sym)
      [] name = "Shareholding Pattern"   -> parse_shareholding_pattern_entry(entry, sym)
      [] name = "Circulars"              -> parse_circular_entry(entry, sym)
      [] name = "Insider Trading"        -> parse_insider_trading_entry(entry, sym)

\* config.py:61-63: the columns of the Announcements statement.  The statement
\* binds its placeholders to the tuple's values in order; a row's other
\* columns take their default, NULL.
SqlColumns == <<"guid", "title", "link", "description", "published_at">>
NewRow(params) ==
    [guid |-> params[1], title |-> params[2], link |-> params[3],
     description |-> params[4], published_at |-> params[5], summary |-> None]

HasGuid(tab, guid) == \E i \in 1..Len(tab) : tab[i].guid = guid

\* cursor.execute(sql_insert, parsed_data) when the statement runs:
\* INSERT ... ON CONFLICT (guid) DO NOTHING (config.py:61-63).
ExecuteMutant_NoConflictClause(tab, params) ==
    [table |-> Append(tab, NewRow(params)), rowcount |-> 1]
ExecuteMutant_Upsert(tab, params) ==
    IF HasGuid(tab, params[1])
    THEN [table |-> [i \in 1..Len(tab) |->
                        IF tab[i].guid = params[1] THEN NewRow(params) ELSE tab[i]],
          rowcount |-> 0]
    ELSE [table |-> Append(tab, NewRow(params)), rowcount |-> 1]
Execute(tab, params) ==
    IF HasGuid(tab, params[1])
    THEN [table |-> tab, rowcount |-> 0]
    ELSE [table |-> Append(tab, NewRow(params)), rowcount |-> 1]

\* What cursor.execute can do on main's psycopg2 connection (main.py:31): run
\* the statement, or raise.  psycopg2 raises TypeError when the tuple has more
\* values than the statement has placeholders, and a psycopg2.Error when the
\* database refuses the statement; "ok" is the statement accepted.
ExecuteOutcomes == {"ok", "TypeError", "psycopg2.Error"}

\* database.py:256: the handler catches sqlite3.Error only.
Caught(exc) == exc \in {"sqlite3.Error"}

NoInsert == [outcome |-> "none", params |-> <<>>, exc |-> "none"]


\* insert_data, lines 244-245, called with a batch of entries.
InsertDataStart ==
    /\ iPc = "idle"
    /\ \E batch \in Batches :
          /\ entries' = batch
          /\ rerun' = (completed /\ batch = entries /\ batch # <<>>)
    /\ ei' = 1
    /\ new_entries_count' = 0
    /\ completed' = FALSE
    /\ iPc' = "loop"
    /\ lastInsert' = NoInsert
    /\ UNCHANGED table
    /\ UNCHANGED <<sumVars, drvVars, parseVars, mainVars, windowCall>>

\* insert_data, lines 247-258: one iteration of the loop over entries.  An
\* exception the handler does not catch leaves insert_data.
InsertEntry ==
    /\ iPc = "loop"
    /\ ei <= Len(entries)
    /\ \E sym \in SymbolOutcomes, ex \in ExecuteOutcomes :
          LET parsed == parse_announcement_entry(entries[ei], sym)
              done == Execute(table, parsed.data)
          IN  CASE parsed.kind = "raise" ->
                     /\ iPc' = "idle"
                     /\ lastInsert' = NoInsert
                     /\ UNCHANGED <<table, ei, new_entries_count>>
                [] parsed.kind = "none" ->
                     /\ ei' = ei + 1
                     /\ lastInsert' = NoInsert
                     /\ UNCHANGED <<iPc, table, new_entries_count>>
                [] parsed.kind = "tuple" /\ ex = "ok" ->
                     /\ table' = done.table
                     /\ new_entries_count' =
                            IF done.rowcount > 0 THEN new_entries_count + 1
                                                 ELSE new_entries_count
                     /\ lastInsert' = [outcome |-> IF done.rowcount > 0
                                                   THEN "inserted" ELSE "ignored",
                                       params |-> parsed.data, exc |-> "none"]
                     /\ ei' = ei + 1
                     /\ UNCHANGED iPc
                [] OTHER ->
                     /\ lastInsert' = [outcome |-> "raised", params |-> parsed.data,
                                       exc |-> ex]
                     /\ IF Caught(ex)
                        THEN /\ ei' = ei + 1
                             /\ UNCHANGED iPc
                        ELSE /\ iPc' = "idle"
                             /\ UNCHANGED ei
                     /\ UNCHANGED <<table, new_entries_count>>
    /\ UNCHANGED <<entries, completed, rerun>>
    /\ UNCHANGED <<sumVars, drvVars, parseVars, mainVars, windowCall>>

\* insert_data, lines 260-262: conn.commit() and the log line carrying
\* new_entries_count; the function returns.
InsertDataFinish ==
    /\ iPc = "loop"
    /\ ei > Len(entries)
    /\ iPc' = "idle"
    /\ completed' = TRUE
    /\ UNCHANGED <<table, entries, ei, new_entries_count, rerun, lastInsert>>
    /\ UNCHANGED <<sumVars, drvVars, parseVars, mainVars, windowCall>>

\* The summarization pipeline, out of band: process_table's UPDATE and commit
\* (summarize_articles.py:105-112) write a summary on a stored row that has none.
PipelineSummarizes ==
    /\ \E i \in 1..Len(table) :
          /\ table[i].summary = None
          /\ table' = [table EXCEPT ![i].summary = SomeSummary]
    /\ UNCHANGED <<iPc, entries, ei, new_entries_count, completed, rerun, lastInsert>>
    /\ UNCHANGED <<sumVars, drvVars, parseVars, mainVars, windowCall>>

StoreNext ==
    \/ InsertDataStart
    \/ PipelineSummarizes
    \/ InsertEntry
    \/ InsertDataFinish

(***************************************************************************)
(* The parsers applied to feed entries (parsers.py)                        *)
(***************************************************************************)
DateTimeMin == <<"15", "-", "Jan", "-", "2024", " ", "10", ":", "30">>
DateOnly == <<"15", "-", "Jan", "-", "2024">>
DateShortYear == <<"31", "-", "Mar", "-", "24">>
Rfc822Date == <<"Thu", ",", " ", "26", " ", "Jun", " ", "2025", " ",
                "00", ":", "00", ":", "00", " ", "+0530">>
NumericDate == <<"01", "-", "03", "-", "2024">>
NumericDayFirst == <<"15", "-", "03", "-", "2024">>
NoSuchDay == <<"31", "-", "Jun", "-", "2025">>

\* Two formats that both accept some strings, and read them differently.
FmtDayMonth == <<"%d", "-", "%m", "-", "%Y">>
FmtMonthDay == <<"%m", "-", "%d", "-", "%Y">>

DateStrings == {None, EmptyStr, GoodDate, DateTimeMin, DateOnly, DateShortYear,
                Rfc822Date, NumericDate, NumericDayFirst, NoSuchDay, BadDate}
FormatLists == {<<>>, <<FmtDateTimeSec>>, <<FmtDateTimeMin>>, <<FmtDate>>,
                <<FmtDateShortYear>>, <<FmtRfc822, FmtDateTimeSec>>,
                <<FmtDateTimeSec, FmtDateTimeMin>>, <<FmtDayMonth, FmtMonthDay>>,
                <<FmtMonthDay, FmtDayMonth>>,
                <<FmtDateTimeSec, FmtDateTimeMin, FmtDate>>}

\* Descriptions of the feeds' entries.
PlainDesc == <<"d1">>
CorporateActionDesc ==
    <<"SERIES", " ", ":", " ", "EQ", "|", "FACE", " ", "VALUE", " ", ":", " ", "10",
      "|", "RECORD", " ", "DATE", " ", ":", " ", "15", "-", "Jan", "-", "2024">>
CorporateActionNoRecordDate ==
    <<"SERIES", " ", ":", " ", "EQ", "|", "RECORD", " ", "DATE", " ", ":", " ", "-">>
BoardMeetingDesc ==
    <<"Purpose", ":", " ", "Results", "|", "Meeting", " ", "Date", ":", " ",
      "15", "-", "Jan", "-", "2024">>
ShareholdingDesc ==
    <<"As", " ", "On", " ", "Date", " ", ":", " ", "31", "-", "Mar", "-", "2024", "|",
      "PR", " ", "AND", " ", "PRGRP", " ", ":", " ", "24", ".", "5", "|",
      "SUBMISSION", " ", "DT", " ", ":", " ", "15", "-", "Jan", "-", "2024", "|",
      "REVISION", " ", "DT", " ", ":", " ", "-">>
ShareholdingNoSubmission ==
    <<"AS", " ", "ON", " ", "DATE", " ", ":", " ", "31", "-", "Mar", "-", "2024">>
QuarterEndingDesc ==
    <<"FOR", " ", "QUARTER", " ", "ENDING", " ", ":", "31", "-", "Mar", "-", "24">>
AsOnDateDesc == <<"AS", " ", "ON", " ", "DATE", " ", ":", "31", "-", "Mar", "-", "24">>
PeriodEndedDesc ==
    <<"PERIOD", " ", "ENDED", " ", ":", " ", "31", "-", "Mar", "-", "2024">>
EncumbranceDesc == EncumbranceLabel \o <<" ", "PROMOTER">>
SecurityTypeDesc == SecurityTypeLabel \o <<" ", "Equity", " ", "Shares">>
SecurityTypeDash == SecurityTypeLabel \o <<" ", "-">>
ColonBeforeLabel ==
    <<"Ref", ":", " ", "X", " ", "|", " ">> \o SecurityTypeLabel \o <<" ", "Equity">>

Descriptions == {None, EmptyStr, PlainDesc, CorporateActionDesc,
                 CorporateActionNoRecordDate, BoardMeetingDesc, ShareholdingDesc,
                 ShareholdingNoSubmission, QuarterEndingDesc, AsOnDateDesc,
                 PeriodEndedDesc, EncumbranceDesc, SecurityTypeDesc,
                 SecurityTypeDash, ColonBeforeLabel}

ExDateTitle == <<"ACME", " ", "Ex", "-", "Date", ":", " ", "15", "-", "Jan", "-", "2024">>
Titles == {None, EmptyStr, <<"ACME">>, ExDateTitle}
Links == {None, <<"L">>}

PublishedParsed == {None, StructTime}
PublishedStrings == {None, GoodDate, DateTimeMin, Rfc822Date, BadDate}

NoEntry == [title |-> None, link |-> None, description |-> None,
            published_parsed |-> None, published |-> None]
NotApplied == [kind |-> "not applied", data |-> <<>>]

\* A feed of FEEDS_TO_PROCESS is fetched (fetcher.py:19-23).
FetchFeed ==
    /\ pPc = "idle"
    /\ dResult = NotApplied
    /\ \E name \in ParserNames : pName' = name
    /\ pPc' = "feed"
    /\ UNCHANGED <<pEntry, pSym, pResult, dStr, dFormats, dResult>>
    /\ UNCHANGED <<sumVars, drvVars, storeVars, mainVars, windowCall>>

\* feedparser.parse (fetcher.py:21) gives an entry its title, link and
\* description: any combination of the values above.
ReadItem ==
    /\ pPc = "feed"
    /\ \E t \in Titles, l \in Links, d \in Descriptions :
          pEntry' = [pEntry EXCEPT !.title = t, !.link = l, !.description = d]
    /\ pPc' = "item"
    /\ UNCHANGED <<pName, pSym, pResult, dStr, dFormats, dResult>>
    /\ UNCHANGED <<sumVars, drvVars, storeVars, mainVars, windowCall>>

\* feedparser.parse gives the entry its pubDate, as published and, when it
\* could read the date, as published_parsed.
ReadPubDate ==
    /\ pPc = "item"
    /\ \E pp \in PublishedParsed, pb \in PublishedStrings :
          pEntry' = [pEntry EXCEPT !.published_parsed = pp, !.published = pb]
    /\ pPc' = "entry"
    /\ UNCHANGED <<pName, pSym, pResult, dStr, dFormats, dResult>>
    /\ UNCHANGED <<sumVars, drvVars, storeVars, mainVars, windowCall>>

\* insert_data applies the feed's parser to the entry (database.py:248).
ParseEntry ==
    /\ pPc = "entry"
    /\ \E sym \in SymbolOutcomes :
          /\ pSym' = sym
          /\ pResult' = ApplyParser(pName, pEntry, sym)
    /\ pPc' = "parsed"
    /\ UNCHANGED <<pName, pEntry, dStr, dFormats, dResult>>
    /\ UNCHANGED <<sumVars, drvVars, storeVars, mainVars, windowCall>>

\* _parse_datetime is called with a string and a list of formats.
ParseDate ==
    /\ pPc = "idle"
    /\ dResult = NotApplied
    /\ \E s \in DateStrings, fl \in FormatLists :
          /\ dStr' = s
          /\ dFormats' = fl
          /\ dResult' = _parse_datetime(s, fl)
    /\ UNCHANGED <<pPc, pName, pEntry, pSym, pResult>>
    /\ UNCHANGED <<sumVars, drvVars, storeVars, mainVars, windowCall>>

ParseNext ==
    \/ FetchFeed
    \/ ReadItem
    \/ ReadPubDate
    \/ ParseEntry
    \/ ParseDate

(***************************************************************************)
(* The ingestion run (main.py)                                             *)
(***************************************************************************)
\* config.py:56-211 lists nineteen feeds, each with its parser and its table;
\* the model runs two of them.
MainFeeds == {"Announcements", "Circulars"}

\* The number of placeholders, and of columns, of a feed's statement
\* (config.py:56-211), for the feeds whose parsers are modelled.
NumPlaceholders ==
    [name \in ParserNames |->
        CASE name \in {"Annual Reports", "Circulars"} -> 4
          [] name = "Corporate Actions"               -> 10
          [] name = "Shareholding Pattern"            -> 11
          [] OTHER                                    -> 5]

\* The table a feed's statement inserts into (config.py:61, 207).
TableMutant_OneTableForAll(feed) == "Announcements"
TableOf(feed) == feed

\* What the feeds carry: an entry with a link, which both feeds accept under
\* the same guid, and one without a link, which Circulars rejects.
MainEntries == {e \in FeedEntries : Truthy(e.title) /\ Truthy(e.published_parsed)}
MainBatches == UNION {[1..n -> MainEntries] : n \in 0..MaxEntries}

\* Values of processing_stats: an int, None, the string "Failed"; NoStat is a
\* key the dict does not have.
PyInt(n) == <<"int", n>>
Failed == <<"Failed">>
NoStat == <<"no key">>

\* What fetch_and_parse_feed returns: a feed with its entries, or None.
Feed(batch) == [none |-> FALSE, entries |-> batch]
NoFeed == [none |-> TRUE, entries |-> <<>>]

\* A future: not submitted, running in a worker thread, done with the value
\* fetch_and_parse_feed returned, or handed to the main thread by as_completed.
Future(state, feed) == [state |-> state, feed |-> feed]

\* The row a statement stores: the tuple's values its placeholders take.
RowOf(feed, params) == SubSeq(params, 1, NumPlaceholders[feed])
GuidsOf(tab) == {tab[i][1] : i \in 1..Len(tab)}

MainStep(kind, guid) == [kind |-> kind, guid |-> guid]

\* main.py:28-43: processing_stats = {}, the connection, and one fetch
\* submitted to the executor for every feed.
StartRun ==
    /\ mPc \in {"idle", "reported"}
    /\ processing_stats' = [f \in MainFeeds |-> NoStat]
    /\ futures' = [f \in MainFeeds |-> Future("running", NoFeed)]
    /\ mPc' = "as_completed"
    /\ mLast' = MainStep("start", None)
    /\ UNCHANGED <<tables, feed_name, mEntries, mi, mCount>>
    /\ UNCHANGED <<sumVars, drvVars, storeVars, parseVars, windowCall>>

\* fetcher.fetch_and_parse_feed in a worker thread (fetcher.py:11-26): the
\* feed with its entries, or None after a RequestException.  The fetches end
\* in any order, while the main thread waits or inserts.
FetchCompletes ==
    /\ \E f \in MainFeeds :
          /\ futures[f].state = "running"
          /\ \E feed \in {Feed(b) : b \in MainBatches} \cup {NoFeed} :
                futures' = [futures EXCEPT ![f] = Future("done", feed)]
    /\ UNCHANGED <<mPc, tables, processing_stats, feed_name, mEntries, mi, mCount,
                   mLast>>
    /\ UNCHANGED <<sumVars, drvVars, storeVars, parseVars, windowCall>>

\* main.py:45-50 and 59-61: as_completed hands over a future that is done.  A
\* feed with entries enters insert_data (database.py:244-245); otherwise the
\* feed's count is 0.
TakeCompleted ==
    /\ mPc = "as_completed"
    /\ \E f \in MainFeeds :
          /\ futures[f].state = "done"
          /\ futures' = [futures EXCEPT ![f] = Future("taken", NoFeed)]
          /\ feed_name' = f
          /\ IF ~futures[f].feed.none /\ futures[f].feed.entries # <<>>
             THEN /\ mEntries' = futures[f].feed.entries
                  /\ mi' = 1
                  /\ mCount' = 0
                  /\ mPc' = "insert_data"
                  /\ mLast' = MainStep("call", None)
                  /\ UNCHANGED processing_stats
             ELSE /\ processing_stats' = [processing_stats EXCEPT ![f] = PyInt(0)]
                  /\ mLast' = MainStep("no entries", None)
                  /\ UNCHANGED <<mPc, mEntries, mi, mCount>>
    /\ UNCHANGED tables
    /\ UNCHANGED <<sumVars, drvVars, storeVars, parseVars, windowCall>>

\* main.py:62-64: the handler inside the loop over the completed futures
\* records "Failed" for the feed, and the loop goes on with the next future.
RecordFailedMutant_LeavesLoop ==
    /\ processing_stats' = [processing_stats EXCEPT ![feed_name] = Failed]
    /\ mPc' = "reported"
    /\ mEntries' = <<>> /\ mi' = 0 /\ mCount' = 0
RecordFailed ==
    /\ processing_stats' = [processing_stats EXCEPT ![feed_name] = Failed]
    /\ mPc' = "as_completed"
    /\ mEntries' = <<>> /\ mi' = 0 /\ mCount' = 0

\* insert_data, lines 247-258, one iteration of the loop, in the main thread.
\* An exception the handler of line 256 does not catch leaves insert_data and
\* is caught by main (main.py:62-64), which records "Failed".
MainInsertEntry ==
    /\ mPc = "insert_data"
    /\ mi <= Len(mEntries)
    /\ \E sym \in SymbolOutcomes, ex \in ExecuteOutcomes :
          LET parsed == ApplyParser(feed_name, mEntries[mi], sym)
              t == TableOf(feed_name)
              row == RowOf(feed_name, parsed.data)
          IN  CASE parsed.kind = "raise" ->
                     /\ RecordFailed
                     /\ mLast' = MainStep("lookup raised", None)
                     /\ UNCHANGED tables
                [] parsed.kind = "none" ->
                     /\ mi' = mi + 1
                     /\ mLast' = MainStep("rejected", None)
                     /\ UNCHANGED <<mPc, tables, processing_stats, mCount, mEntries>>
                [] parsed.kind = "tuple" /\ ex = "ok" ->
                     /\ IF row[1] \in GuidsOf(tables[t])
                        THEN /\ mLast' = MainStep("ignored", row[1])
                             /\ UNCHANGED <<tables, mCount>>
                        ELSE /\ tables' = [tables EXCEPT ![t] = Append(@, row)]
                             /\ mCount' = mCount + 1
                             /\ mLast' = MainStep("inserted", row[1])
                     /\ mi' = mi + 1
                     /\ UNCHANGED <<mPc, processing_stats, mEntries>>
                [] OTHER ->
                     /\ mLast' = MainStep("execute raised", row[1])
                     /\ IF Caught(ex)
                        THEN /\ mi' = mi + 1
                             /\ UNCHANGED <<mPc, processing_stats, mEntries, mCount>>
                        ELSE RecordFailed
                     /\ UNCHANGED tables
    /\ UNCHANGED <<futures, feed_name>>
    /\ UNCHANGED <<sumVars, drvVars, storeVars, parseVars, windowCall>>

\* insert_data, lines 260-262, and main.py:52-58: the commit and the log line;
\* the function ends without a return statement, so the call's value is None,
\* and main stores that value under the feed's name.
MainInsertReturns ==
    /\ mPc = "insert_data"
    /\ mi > Len(mEntries)
    /\ processing_stats' = [processing_stats EXCEPT ![feed_name] = None]
    /\ mPc' = "as_completed"
    /\ mLast' = MainStep("returned", None)
    /\ mEntries' = <<>> /\ mi' = 0 /\ mCount' = 0
    /\ UNCHANGED <<futures, tables, feed_name>>
    /\ UNCHANGED <<sumVars, drvVars, storeVars, parseVars, windowCall>>

\* main.py:65-68: every future was handed over; the report is sent.  The
\* locals of the insert_data calls are gone by then.
SendReport ==
    /\ mPc = "as_completed"
    /\ \A f \in MainFeeds : futures[f].state = "taken"
    /\ mPc' = "reported"
    /\ mLast' = MainStep("report", None)
    /\ UNCHANGED <<futures, tables, processing_stats, feed_name, mEntries, mi, mCount>>
    /\ UNCHANGED <<sumVars, drvVars, storeVars, parseVars, windowCall>>

MainNext ==
    \/ StartRun
    \/ FetchCompletes
    \/ TakeCompleted
    \/ MainInsertEntry
    \/ MainInsertReturns
    \/ SendReport

(***************************************************************************)
(* The summarization window (summarize_articles.py)                        *)
(***************************************************************************)
\* datetime.time values <<hour, minute, second, microsecond>>: the instants
\* around midnight, around both ends of the window, and inside and outside.
ClockHours == {0, 1, 12, 16, 17, 23}
ClockMinutes == {0, 29, 30, 31, 59}
ClockSeconds == {0, 1, 59}
ClockMicroseconds == {0, 1, 999999}
TimesOfDay == ClockHours \X ClockMinutes \X ClockSeconds \X ClockMicroseconds

\* datetime.time's order: hour, then minute, second and microsecond.
TimeLess(a, b) ==
    \E k \in 1..4 : a[k] < b[k] /\ \A j \in 1..(k - 1) : a[j] = b[j]
TimeLessEq(a, b) == a = b \/ TimeLess(a, b)

\* summarize_articles.py:40-41
start_time == <<16, 30, 0, 0>>
end_time == <<0, 30, 0, 0>>

\* A window whose end instant is outside.
WindowMutant_EndExcluded(now_utc) ==
    TimeLessEq(start_time, now_utc) \/ TimeLess(now_utc, end_time)

\* summarize_articles.py:46
is_within_summarization_window(now_utc) ==
    TimeLessEq(start_time, now_utc) \/ TimeLessEq(now_utc, end_time)

NotCalled == [called |-> FALSE, now_utc |-> <<0, 0, 0, 0>>, result |-> FALSE]

\* A call of is_within_summarization_window (lines 37-46): it reads the clock.
IsWithinWindow ==
    /\ \E now_utc \in TimesOfDay :
          windowCall' = [called |-> TRUE, now_utc |-> now_utc,
                         result |-> is_within_summarization_window(now_utc)]
    /\ UNCHANGED <<sumVars, drvVars, storeVars, parseVars, mainVars>>

WindowNext == IsWithinWindow

(***************************************************************************)
(* Specifications                                                          *)
(***************************************************************************)
\* The state after construction: the summarizer before a call, the driver
\* before a run over tables whose rows all await a summary (NULL or ''), and
\* the store writer before its first batch, its table empty.
Init ==
    /\ sPc = "start"
    /\ url = NoUrl
    /\ full_text = None
    /\ chunks = <<>>
    /\ chunk_summaries = <<>>
    /\ apiCalls = <<>>
    /\ sumResult = None
    /\ dPc = "idle"
    /\ db = [t \in TableNames |-> [g \in Guids |->
                [url |-> DocUrl,
                 summary |-> IF g % 2 = 1 THEN None ELSE EmptyStr]]]
    /\ txn = {}
    /\ ti = 0
    /\ ri = 0
    /\ records_to_process = <<>>
    /\ summary = None
    /\ attempted = {}
    /\ lastStep = Step("none", NoRow)
    /\ halted = FALSE
    /\ iPc = "idle"
    /\ table = <<>>
    /\ entries = <<>>
    /\ ei = 0
    /\ new_entries_count = 0
    /\ completed = FALSE
    /\ rerun = FALSE
    /\ lastInsert = NoInsert
    /\ pPc = "idle"
    /\ pName = ""
    /\ pEntry = NoEntry
    /\ pSym = "none"
    /\ pResult = NotApplied
    /\ dStr = None
    /\ dFormats = <<>>
    /\ dResult = NotApplied
    /\ mPc = "idle"
    /\ futures = [f \in MainFeeds |-> Future("none", NoFeed)]
    /\ tables = [f \in MainFeeds |-> <<>>]
    /\ processing_stats = [f \in MainFeeds |-> NoStat]
    /\ feed_name = ""
    /\ mEntries = <<>>
    /\ mi = 0
    /\ mCount = 0
    /\ mLast = MainStep("none", None)
    /\ windowCall = NotCalled

SumSpec == Init /\ [][SumNext]_vars

DrvSpec == Init /\ [][DrvNext]_vars

StoreSpec == Init /\ [][StoreNext]_vars

ParseSpec == Init /\ [][ParseNext]_vars

MainSpec == Init /\ [][MainNext]_vars

WindowSpec == Init /\ [][WindowNext]_vars

(***************************************************************************)
(* Claims about AISummarizer.summarize (SumSpec)                           *)
(***************************************************************************)
CallsOfKind(kind) == Cardinality({i \in 1..Len(apiCalls) : apiCalls[i].kind = kind})

\* ceil(n / MAX_CHUNK_SIZE), from its definition.
CeilOfChunks(n) ==
    CHOOSE c \in 0..n : c * MAX_CHUNK_SIZE >= n /\ (c - 1) * MAX_CHUNK_SIZE < n

\* A chunk call succeeded: it gave a summary (not None, not "").
SomeChunkSucceeded ==
    \E i \in 1..Len(chunk_summaries) : Truthy(chunk_summaries[i])
EveryChunkFailed ==
    /\ Len(chunk_summaries) = Len(chunks)
    /\ \A i \in 1..Len(chunk_summaries) : ~Truthy(chunk_summaries[i])

\* The call counts of a finished summarize() over an extracted text.
CallCounts ==
    /\ Len(full_text) <= MAX_CHUNK_SIZE =>
          /\ Len(apiCalls) = 1
          /\ apiCalls[1].text = full_text
    /\ (Len(full_text) > MAX_CHUNK_SIZE /\ SomeChunkSucceeded) =>
          /\ Len(apiCalls) = CeilOfChunks(Len(full_text)) + 1
          /\ \A i \in 1..CeilOfChunks(Len(full_text)) : apiCalls[i].kind = "map"
          /\ apiCalls[Len(apiCalls)].kind = "reduce"

\* C1 (as stated): when summarize() has finished on an extracted text of
\* length <= MAX_CHUNK_SIZE it has issued exactly one summarization call, and
\* on a longer text of which a chunk call succeeded exactly
\* ceil(length / MAX_CHUNK_SIZE) chunk calls followed by one reduce call.
C1_CallCountsAnyText ==
    (sPc = "done" /\ full_text # None) => CallCounts

\* C1 (amended): the same, for an extracted text that is not empty; the empty
\* text (length 0) ends summarize() at line 168 with no call at all.
C1_CallCountsNonEmptyText ==
    (sPc = "done" /\ Truthy(full_text)) => CallCounts

\* C1 witness: a text of 2 * MAX_CHUNK_SIZE + 1 characters was summarized in
\* three chunk calls and a reduce call.
C1_Witness ==
    /\ sPc = "done"
    /\ Len(full_text) = 2 * MAX_CHUNK_SIZE + 1
    /\ CallsOfKind("map") = 3
    /\ CallsOfKind("reduce") = 1

\* C2: with two or more chunks, if every chunk summarization fails then
\* summarize() returns None and issues no reduce call; a reduce call is only
\* ever issued after some chunk summary was obtained.
C2_AllChunksFailNoReduce ==
    /\ (sPc = "done" /\ Len(chunks) >= 2 /\ EveryChunkFailed) =>
          (sumResult = None /\ CallsOfKind("reduce") = 0)
    /\ CallsOfKind("reduce") > 0 => SomeChunkSucceeded

\* C2 witness: summarize() finished on three chunks whose calls were all made
\* and all failed.
C2_Witness ==
    /\ sPc = "done"
    /\ Len(chunks) = 3
    /\ EveryChunkFailed
    /\ CallsOfKind("map") = 3

(***************************************************************************)
(* Claims about the batch driver (DrvSpec)                                 *)
(***************************************************************************)
RowSummary(row) == db[row.t][row.pk_val].summary

PendingIn(t) == {g \in Guids : Unsummarized(db[t][g])}

\* C3: once a window check before a row has said "outside", nothing more is
\* done in that run: until the next run starts there is no summarizer call
\* and no summary is written or committed.
C3_NoWorkAfterHalt ==
    [][(halted /\ halted') =>
          (dPc # "summarize" /\ db' = db /\ txn' = txn /\ attempted' = attempted)]_vars
    /\ [](halted => dPc = "idle")

\* C3 witness: the run was halted before a row of the first table while rows
\* of both tables still awaited a summary.
C3_Witness ==
    /\ halted
    /\ lastStep = Step("window_outside", [t |-> TABLES_TO_SUMMARIZE[1], pk_val |-> 1])
    /\ \A k \in 1..NumTables : PendingIn(TABLES_TO_SUMMARIZE[k]) # {}

\* C4: the driver is about to invoke summarizer.summarize only directly after
\* a window check for that same row said "inside"; a run that starts outside
\* the window ends at once, with no table opened and no row fetched.
C4_SummarizeOnlyAfterInsideCheck ==
    /\ dPc = "summarize" => lastStep = Step("window_inside", CurRow)
    /\ lastStep.kind = "start_outside" =>
          (dPc = "idle" /\ ti = 0 /\ records_to_process = <<>>)

\* C4 witness: the driver is about to summarize the second row of a table,
\* after the first row was summarized.
C4_Witness ==
    /\ dPc = "summarize"
    /\ ri = 2
    /\ attempted # {}

\* C5 (as stated): when the driver leaves a row on which
\* summarizer.summarize returned, that row's committed summary is the
\* returned text if it is non-empty and the failure marker otherwise.
C5_ReturnedSummaryIsCommitted ==
    [][(dPc \in {"execute", "commit"} /\ dPc' \notin {"execute", "commit"}) =>
          db'[CurTable][CurRow.pk_val].summary =
              (IF Truthy(summary) THEN summary ELSE SUMMARY_FAILED)]_vars

\* C6 (as stated): the summarizer is never invoked on a row it was invoked on
\* before, in this run or an earlier one.
C6_AtMostOneAttemptPerRow ==
    dPc = "summarize" => CurRow \notin attempted

\* C7 (as stated): after an exception while summarizing or persisting a row,
\* the row's summary is the failure marker.
C7_ExceptionRecordsMarker ==
    lastStep.kind \in {"summarize_raised", "execute_raised", "commit_raised"} =>
        RowSummary(lastStep.row) = SUMMARY_FAILED

\* C8 (as stated): after a database error in the first table, the driver
\* goes on to the next table of TABLES_TO_SUMMARIZE.
C8_DbErrorGoesToNextTable ==
    (lastStep.kind = "db_error" /\ lastStep.row.t = TABLES_TO_SUMMARIZE[1]) =>
        (dPc = "table" /\ ti = 2)

(***************************************************************************)
(* Claims about the store writer (StoreSpec)                               *)
(***************************************************************************)
OneRowPerGuid ==
    \A i, j \in 1..Len(table) : table[i].guid = table[j].guid => i = j

\* A step of insert_data (the pipeline's steps leave ei and iPc alone).
InsertDataStep == ei' # ei \/ iPc' # iPc

\* C9: a table never holds two rows with one guid, and an insert_data call
\* with the entries of the call before it, which returned, inserts no row
\* and counts 0 new records.
C9_OneRowPerGuidAndIdempotent ==
    /\ [](OneRowPerGuid /\ (rerun => new_entries_count = 0))
    /\ [][rerun' => Len(table') = Len(table)]_vars

\* C9 witness: a second call with the same entries has returned, after its
\* last statement found the entry's guid stored already.
C9_Witness ==
    /\ rerun
    /\ completed
    /\ iPc = "idle"
    /\ lastInsert.outcome = "ignored"
    /\ Len(table) = 2

\* C10: a step of insert_data leaves every stored row as it was, column by
\* column; rows are only ever added.
C10_StoredRowsUnchanged ==
    [][InsertDataStep =>
          /\ Len(table') >= Len(table)
          /\ \A i \in 1..Len(table) : table'[i] = table[i]]_vars

\* C10 witness: an entry was ingested whose guid is stored, on a row the
\* pipeline has summarized, and whose title and description differ from
\* the row's.
C10_Witness ==
    /\ lastInsert.outcome = "ignored"
    /\ \E i \in 1..Len(table) :
          /\ table[i].guid = lastInsert.params[1]
          /\ table[i].summary = SomeSummary
          /\ table[i].title # lastInsert.params[2]
          /\ table[i].description # lastInsert.params[4]
\* C11 (as stated): after cursor.execute raised a database error on an entry,
\* insert_data goes on with the batch: it is still in its loop, or it has
\* gone through every entry and returned.
C11_DbErrorSkipsEntryOnly ==
    (lastInsert.outcome = "raised" /\ lastInsert.exc = "psycopg2.Error") =>
        (iPc = "loop" \/ completed)

(***************************************************************************)
(* Claims about the parsers (ParseSpec)                                    *)
(***************************************************************************)
\* Whether strptime accepts the string under the k-th format of the list.
AcceptedBy(s, formats, k) == strptime(s, formats[k]).ok

\* C15: _parse_datetime returns the datetime of the first format of the list
\* that accepts the string, and None when the string is absent or empty or no
\* format accepts it; it returns one of the two in every case (no exception).
C15_FirstAcceptingFormat ==
    dResult # NotApplied =>
        /\ (~Truthy(dStr) \/ \A k \in 1..Len(dFormats) : ~AcceptedBy(dStr, dFormats, k))
               => dResult = None
        /\ \A k \in 1..Len(dFormats) :
               (/\ Truthy(dStr)
                /\ AcceptedBy(dStr, dFormats, k)
                /\ \A j \in 1..(k - 1) : ~AcceptedBy(dStr, dFormats, j))
               => dResult = strptime(dStr, dFormats[k]).dt
        /\ dResult = None \/ Len(dResult) = 7

\* C15 witness: the circulars' format list read a day-first date: the first
\* format refused it and the second gave the datetime.
C15_Witness ==
    /\ dStr = GoodDate
    /\ dFormats = <<FmtRfc822, FmtDateTimeSec>>
    /\ ~AcceptedBy(dStr, dFormats, 1)
    /\ dResult = <<2024, 1, 15, 10, 0, 0, "">>

\* The required fields of the category parsers, as the feeds carry them.
LinkIsIdentifier == {"Annual Reports", "Board Meetings", "Investor Complaints",
                     "Shareholding Pattern", "Circulars", "Insider Trading"}
DescriptionRequired == {"Corporate Actions", "Reason for Encumbrance",
                        "Share Transfers", "Shareholding Pattern"}
PublishedFormats(name) ==
    CASE name \in {"Announcements", "Board Meetings", "Corporate Actions",
                   "Investor Complaints", "Shareholding Pattern"} -> <<FmtDateTimeSec>>
      [] name \in {"Share Transfers", "Insider Trading"} -> <<FmtDateTimeMin>>
      [] name = "Circulars" -> <<FmtRfc822, FmtDateTimeSec>>
      [] OTHER -> <<>>
Parseable(s, formats) ==
    Truthy(s) /\ \E k \in 1..Len(formats) : AcceptedBy(s, formats, k)
HasPublishedDate(name, e) ==
    CASE name = "Announcements" ->
             Truthy(e.published_parsed) \/ Parseable(e.published, PublishedFormats(name))
      [] name \in {"Annual Reports", "Reason for Encumbrance"} -> TRUE
      [] OTHER -> Parseable(e.published, PublishedFormats(name))
\* The descriptions that carry the category's own date in the category's form.
WithCategoryDate(name) ==
    CASE name = "Annual Reports" -> {AsOnDateDesc}
      [] name = "Board Meetings" -> {BoardMeetingDesc}
      [] name = "Corporate Actions" -> {CorporateActionDesc}
      [] name = "Investor Complaints" -> {QuarterEndingDesc}
      [] name = "Share Transfers" -> {PeriodEndedDesc}
      [] name = "Shareholding Pattern" -> {ShareholdingDesc}
      [] OTHER -> Descriptions
LacksRequiredField(name, e) ==
    \/ ~Truthy(e.title)
    \/ name \in LinkIsIdentifier /\ ~Truthy(e.link)
    \/ name \in DescriptionRequired /\ ~Truthy(e.description)
    \/ ~HasPublishedDate(name, e)
    \/ e.description \notin WithCategoryDate(name)

\* C13: a category parser applied to an entry that lacks one of its required
\* fields (title, identifier, parseable published date, category date)
\* returns None, whatever the symbol lookup would have done; a tuple it
\* returns carries a guid and a title.
C13_MissingFieldRejected ==
    pPc = "parsed" =>
        /\ LacksRequiredField(pName, pEntry) => pResult = Rejected
        /\ pResult.kind = "tuple" =>
               (Truthy(pResult.data[1]) /\ Truthy(pResult.data[2]))

\* C13 witness: the board-meeting parser rejected an entry with a title, a
\* link and a parseable published date whose description has no meeting
\* date, where the symbol lookup would have raised.
C13_Witness ==
    /\ pPc = "parsed"
    /\ pName = "Board Meetings"
    /\ Truthy(pEntry.title) /\ Truthy(pEntry.link)
    /\ pEntry.published = GoodDate
    /\ pEntry.description = PlainDesc
    /\ pSym = "raise"
    /\ pResult = Rejected

\* The categories whose feeds sometimes omit the link (parsers.py:405, 478).
HashedCategories == {"Reason for Encumbrance", "Share Transfers"}

C16_CorporateActionFields ==
    (/\ pPc = "parsed"
     /\ pName = "Corporate Actions"
     /\ Truthy(pEntry.title)
     /\ Parseable(pEntry.published, <<FmtDateTimeSec>>)
     /\ pEntry.description = CorporateActionDesc
     /\ pSym # "raise")
    => /\ pResult.kind = "tuple"
       /\ pResult.data[7] = <<"EQ">>
       /\ pResult.data[9] = <<"float", 10, "0">>
       /\ pResult.data[10] = <<"2024", "-", "01", "-", "15">>

\* C16 witness: the parser returned the tuple of that description for an
\* entry whose title also carries an ex-date.
C16_Witness ==
    /\ pPc = "parsed"
    /\ pName = "Corporate Actions"
    /\ pEntry.title = ExDateTitle
    /\ pEntry.description = CorporateActionDesc
    /\ pResult.kind = "tuple"
    /\ pResult.data[6] = <<"2024", "-", "01", "-", "15">>
    /\ pResult.data[9] = <<"float", 10, "0">>
    /\ pResult.data[8] = None

(***************************************************************************)
(* Claims about text extraction and chunking (SumSpec)                     *)
(***************************************************************************)
\* C17 (as stated): a fetched document is classified by its extension first:
\* a URL with .xml and no .pdf goes to the XML extractor and a URL with .pdf
\* and no .xml to the PDF extractor, whatever the content-type header says.
C17_ExtensionBeforeContentType ==
    url.fetched =>
        /\ (url.xml_in_url /\ ~url.pdf_in_url) => url.extractor = "xml"
        /\ (url.pdf_in_url /\ ~url.xml_in_url) => url.extractor = "pdf"

\* C18: when the extractor yields no text (the fetch failed, the type is
\* unknown, or the extraction came out empty), summarize() returns None and
\* has issued no summarization call.
C18_NoTextNoCall ==
    (sPc = "done" /\ full_text \in {None, EmptyStr}) =>
        (sumResult = None /\ apiCalls = <<>>)

\* C18 witness: summarize() has returned for a fetched PDF whose extraction
\* came out empty.
C18_Witness ==
    /\ sPc = "done"
    /\ url.fetched
    /\ url.extractor = "pdf"
    /\ full_text = EmptyStr
    /\ sumResult = None

\* The chunks put together again, in order.
RECURSIVE Concatenated(_)
Concatenated(cs) == IF cs = <<>> THEN <<>> ELSE Head(cs) \o Concatenated(Tail(cs))

\* C19: _split_text_into_chunks gives the text as its one chunk when the text
\* has at most MAX_CHUNK_SIZE characters (the empty text included); for a
\* longer text the chunks concatenated in order are the text, every chunk has
\* between 1 and MAX_CHUNK_SIZE characters, and every chunk but the last has
\* exactly MAX_CHUNK_SIZE.
C19_ChunksPartitionText ==
    /\ _split_text_into_chunks(EmptyStr) = <<EmptyStr>>
    /\ chunks # <<>> =>
          /\ Len(full_text) <= MAX_CHUNK_SIZE => chunks = <<full_text>>
          /\ Len(full_text) > MAX_CHUNK_SIZE =>
                /\ Concatenated(chunks) = full_text
                /\ \A k \in 1..Len(chunks) :
                       Len(chunks[k]) >= 1 /\ Len(chunks[k]) <= MAX_CHUNK_SIZE
                /\ \A k \in 1..(Len(chunks) - 1) : Len(chunks[k]) = MAX_CHUNK_SIZE

\* C19 witness: a text one character longer than two chunks was split in
\* three, the last chunk holding the one character left.
C19_Witness ==
    /\ Len(full_text) = 2 * MAX_CHUNK_SIZE + 1
    /\ Len(chunks) = 3
    /\ Len(chunks[3]) = 1
    /\ chunks[3] = <<full_text[Len(full_text)]>>

(***************************************************************************)
(* Claims about the ingestion run (MainSpec)                               *)
(***************************************************************************)
\* The step in which insert_data returns to main for the feed it was called on.
InsertDataReturns == mPc = "insert_data" /\ mLast'.kind = "returned"

\* C12 (as stated): when a feed's batch completes, the value main records in
\* processing_stats for the feed is the number of rows insert_data inserted.
C12_StatsIsInsertedCount ==
    [][InsertDataReturns => processing_stats'[feed_name] = PyInt(mCount)]_vars

OneRowPerGuidPerTable ==
    \A f \in MainFeeds :
        \A i, j \in 1..Len(tables[f]) : tables[f][i][1] = tables[f][j][1] => i = j

\* The guids of the entries of a batch that the feed's parser accepts.
AcceptedGuids(f, batch) ==
    {ApplyParser(f, batch[i], "none").data[1] :
        i \in {k \in 1..Len(batch) : ApplyParser(f, batch[k], "none").kind = "tuple"}}

\* C20: whatever the order in which the fetches end and whatever guids the
\* batches share, no table ever holds two rows with one guid; a statement on
\* a stored guid is skipped and the call goes on (no error); a table changes
\* only by its own feed's call appending a row with a guid it did not hold;
\* and when a feed's call returns, its table holds the guid of every entry
\* of the batch the parser accepts.
C20_OrderIndependentStore ==
    /\ [](OneRowPerGuidPerTable /\ (mLast.kind = "ignored" => mPc = "insert_data"))
    /\ [][\A f \in MainFeeds :
             tables'[f] # tables[f] =>
                 /\ f = feed_name
                 /\ mLast'.kind = "inserted"
                 /\ mLast'.guid \notin GuidsOf(tables[f])
                 /\ Len(tables'[f]) = Len(tables[f]) + 1
                 /\ SubSeq(tables'[f], 1, Len(tables[f])) = tables[f]
                 /\ tables'[f][Len(tables'[f])][1] = mLast'.guid]_vars
    /\ [][InsertDataReturns =>
             AcceptedGuids(feed_name, mEntries) \subseteq GuidsOf(tables[feed_name])]_vars

\* C20 witness: in a later run the Circulars fetch ended first, while the
\* Announcements fetch was still running; its entry's guid, which both tables
\* hold from the run before, was skipped.
C20_Witness ==
    /\ mLast.kind = "ignored"
    /\ feed_name = "Circulars"
    /\ futures["Announcements"].state = "running"
    /\ mLast.guid \in GuidsOf(tables["Announcements"])
    /\ mLast.guid \in GuidsOf(tables["Circulars"])
    /\ Len(tables["Announcements"]) = 2

(***************************************************************************)
(* Claims about the map and reduce calls (SumSpec)                         *)
(***************************************************************************)
\* C21 (as stated): the instruction of a reduce call differs from the
\* instruction of the document's chunk (map) calls.
C21_ReduceInstructionDistinct ==
    \A i, j \in 1..Len(apiCalls) :
        (apiCalls[i].kind = "map" /\ apiCalls[j].kind = "reduce") =>
            apiCalls[i].instruction # apiCalls[j].instruction

(***************************************************************************)
(* Claims about the fields of a description (ParseSpec)                    *)
(***************************************************************************)
\* The trimmed text after the colon that ends the label's first occurrence.
TextAfterLabel(description, label) ==
    Strip(SubSeq(description, Find(description, label) + Len(label),
                 Len(description)))

\* C22 (as stated): the labelled field a parser takes from a description
\* that contains the label is the trimmed text after the first colon that
\* comes after the label, also when another colon occurs before the label.
C22_ValueFollowsLabelColon ==
    (/\ pPc = "parsed"
     /\ pName = "Insider Trading"
     /\ pResult.kind = "tuple"
     /\ Contains(pEntry.description, SecurityTypeLabel))
    => pResult.data[4] = TextAfterLabel(pEntry.description, SecurityTypeLabel)

\* C23 (as stated): no element of a tuple a parser returns is the placeholder
\* dash "-": a description field whose value is "-" is None in the tuple, or
\* the entry is rejected.
C23_DashIsAbsent ==
    (pPc = "parsed" /\ pResult.kind = "tuple") =>
        \A k \in 1..Len(pResult.data) : pResult.data[k] # <<"-">>

(***************************************************************************)
(* Claims about the summarization window (WindowSpec)                      *)
(***************************************************************************)
\* The whole seconds of a time of day since midnight.
SecondsOfDay(t) == (t[1] * 60 + t[2]) * 60 + t[3]

\* C24: is_within_summarization_window returns true exactly when the UTC
\* time of day is at or after 16:30:00 or at or before 00:30:00, both
\* instants included, and false for every time between them.
C24_WindowWrapsMidnight ==
    windowCall.called =>
        (windowCall.result <=>
            \/ SecondsOfDay(windowCall.now_utc) >= 16 * 3600 + 30 * 60
            \/ SecondsOfDay(windowCall.now_utc) < 30 * 60
            \/ SecondsOfDay(windowCall.now_utc) = 30 * 60 /\ windowCall.now_utc[4] = 0)

\* C24 witness: the call at 00:30:00 sharp returned true.
C24_Witness ==
    /\ windowCall.called
    /\ windowCall.now_utc = <<0, 30, 0, 0>>
    /\ windowCall.result

(***************************************************************************)
(* C25: partial chunk failures                                             *)
(***************************************************************************)

\* The chunk summaries that succeeded, in their original order, each
\* followed by a blank line except the last.
RECURSIVE BlankLineJoined(_)
BlankLineJoined(summaries) ==
    IF summaries = <<>> THEN <<>>
    ELSE IF Head(summaries) \in {None, EmptyStr}
         THEN BlankLineJoined(Tail(summaries))
    ELSE LET rest == BlankLineJoined(Tail(summaries))
         IN  IF rest = <<>> THEN Head(summaries)
             ELSE Head(summaries) \o <<"\n", "\n">> \o rest

SomeChunkFailed == \E i \in 1..Len(chunk_summaries) :
                       chunk_summaries[i] \in {None, EmptyStr}
SomeChunkSummarized == \E i \in 1..Len(chunk_summaries) :
                          chunk_summaries[i] \notin {None, EmptyStr}

\* C25: when a document of two or more chunks has finished with some but not
\* all of its chunk calls failed, every chunk was still sent, the last call
\* is the reduce call, its input is exactly the successful chunk summaries in
\* their original order joined by a blank line, and the result of the
\* document is the result of that call: its stripped answer (empty for an
\* answer of white space), or None when the reduce call itself failed.
C25_PartialFailureReduces ==
    (sPc = "done" /\ Len(chunks) >= 2
        /\ SomeChunkFailed /\ SomeChunkSummarized)
    => /\ Len(chunk_summaries) = Len(chunks)
       /\ Len(apiCalls) = Len(chunks) + 1
       /\ \A i \in 1..Len(chunks) :
              apiCalls[i].kind = "map" /\ apiCalls[i].text = chunks[i]
       /\ apiCalls[Len(apiCalls)].kind = "reduce"
       /\ apiCalls[Len(apiCalls)].text = BlankLineJoined(chunk_summaries)
       /\ sumResult \in {None, EmptyStr, <<"s", ToString(Len(apiCalls))>>}

\* Three chunks, the middle one failed, the other two summarized, and the
\* reduce call answered.
C25_Witness ==
    /\ sPc = "done" /\ Len(chunks) = 3
    /\ chunk_summaries[1] # None /\ chunk_summaries[1] # EmptyStr
    /\ chunk_summaries[2] = None
    /\ chunk_summaries[3] # None /\ chunk_summaries[3] # EmptyStr
    /\ apiCalls[4].kind = "reduce"
    /\ apiCalls[4].text = <<"s", "1", "\n", "\n", "s", "3">>
    /\ sumResult = <<"s", "4">>

(***************************************************************************)
(* C26: the size of the text of every summarization call                   *)
(***************************************************************************)

\* C26: the text passed to any summarization call, map or reduce, is never
\* longer than MAX_CHUNK_SIZE: joined chunk summaries that are longer would
\* be split and reduced again.  summarize sends the joined summaries in one
\* call whatever their length, so this does not hold.
C26_EveryCallWithinBudget ==
    \A i \in 1..Len(apiCalls) : Len(apiCalls[i].text) <= MAX_CHUNK_SIZE

(***************************************************************************)
(* C27: committed summaries stay                                           *)
(***************************************************************************)

\* A row summary the driver has committed: a text or the failure marker.
IsCommittedSummary(row) == row.summary # None /\ row.summary # EmptyStr

\* C27: no step of the driver (a rollback after a database error, an
\* exception on a row, a window halt, a later commit, a later run) changes a
\* row whose summary is committed, and a step that changes the stored rows
\* changes only the row being processed.
C27_CommittedSummariesStay ==
    [][\A t \in TableNames : \A g \in Guids :
          /\ IsCommittedSummary(db[t][g]) => db'[t][g] = db[t][g]
          /\ db'[t][g] # db[t][g]
                => /\ dPc = "commit"
                   /\ t = TABLES_TO_SUMMARIZE[ti]
                   /\ g = records_to_process[ri].pk_val]_vars

\* The window closes before the second row of a table, or the commit of the
\* second row fails, after the first row's summary was committed: the first
\* row keeps its summary and the second has none.
C27_Witness ==
    /\ lastStep.kind \in {"window_outside", "commit_raised", "execute_raised"}
    /\ \E g \in Guids :
          /\ g # lastStep.row.pk_val
          /\ db[lastStep.row.t][g].summary = SomeSummary
          /\ [t |-> lastStep.row.t, pk_val |-> g] \in attempted
    /\ db[lastStep.row.t][lastStep.row.pk_val].summary \in {None, EmptyStr}

(***************************************************************************)
(* C28: a category with no pending rows                                    *)
(***************************************************************************)

\* C28 (as stated): after the SELECT of the first table has found no
\* unsummarized row, the driver goes on to the next table of
\* TABLES_TO_SUMMARIZE.  process_table returns None there and main breaks on
\* it, so this does not hold.
C28_EmptyTableGoesToNextTable ==
    (lastStep.kind = "no_records" /\ lastStep.row.t = TABLES_TO_SUMMARIZE[1]) =>
        (dPc = "table" /\ ti = 2)

(***************************************************************************)
(* C29: the parser's tuple and the statement's placeholders                *)
(***************************************************************************)

\* C29 (as stated): the tuple a feed's parser returns for an accepted entry
\* has exactly as many values as the feed's insert statement has
\* placeholders.  Every parser appends the company symbol and an empty
\* summary to the statement's columns, so this does not hold.
C29_TupleFitsStatement ==
    (pPc = "parsed" /\ pResult.kind = "tuple") =>
        Len(pResult.data) = NumPlaceholders[pName]

(***************************************************************************)
(* C30: a feed's failure stays in that feed                                *)
(***************************************************************************)

\* The step is the end of a feed that failed: its fetch returned nothing, or
\* an exception left the parsing and inserting of its entries.
FeedFails(f) ==
    /\ processing_stats[f] = NoStat
    /\ processing_stats'[f] \in {Failed, PyInt(0)}

\* C30: in a run of main, the step that ends a failed feed changes that
\* feed's statistic and nothing of another feed (neither its statistic, nor
\* its fetch, nor any stored row) and leaves main in the loop over the
\* completed fetches; a feed's statistic is written once in a run, when the
\* feed is the one being processed; and the report is generated only when the
\* fetch of every feed was handed over and every feed has its statistic.
C30_FailureStaysInFeed ==
    [][/\ \A f \in MainFeeds :
             FeedFails(f) =>
                 /\ mPc' = "as_completed"
                 /\ tables' = tables
                 /\ \A g \in MainFeeds \ {f} :
                        /\ processing_stats'[g] = processing_stats[g]
                        /\ futures'[g] = futures[g]
       /\ \A f \in MainFeeds :
             (mPc \in {"as_completed", "insert_data"}
                 /\ processing_stats'[f] # processing_stats[f])
                => (processing_stats[f] = NoStat /\ feed_name' = f)
       /\ (mPc # "reported" /\ mPc' = "reported")
             => \A f \in MainFeeds : /\ futures[f].state = "taken"
                                     /\ processing_stats[f] # NoStat]_vars

\* Announcements has failed in this run, and an entry of Circulars, taken
\* after it, has just been inserted.
C30_Witness ==
    /\ mPc = "insert_data"
    /\ feed_name = "Circulars"
    /\ processing_stats["Announcements"] = Failed
    /\ processing_stats["Circulars"] = NoStat
    /\ mLast.kind = "inserted"
====
